---- MODULE Spec2Model ----
(***************************************************************************)
(* pv-mounter: the mount orchestration engine and its companion clean      *)
(* path (pkg/plugin).  One mount or clean invocation runs at a time; each   *)
(* invocation is a sequence of steps (API calls, waits, subprocesses) whose *)
(* outcomes the environment chooses.                                        *)
(***************************************************************************)
EXTENDS Naturals, Integers, Sequences, FiniteSets, TLC

\* ------------------------------------------------------------------ bounds
MaxRuns == 3          \* mount/clean invocations in one behaviour
MaxWorkloads == 2     \* workload pods present before the first invocation
MaxNameLen == 3       \* length of the short names given to ValidateKubernetesName
MaxContainers == 2    \* containers of the pods given to detectPodUID
MaxStatuses == 2      \* ephemeral containers of the pods given to the waiter
MaxBanner == 5        \* bytes the peer of a probe connection has sent

\* ------------------------------------------------------- program constants
DefaultSSHPort   == 2137
DefaultNFSPort   == 2049
MinEphemeralPort == 1024
MaxEphemeralPort == 65535
maxRetries       == 5
KeyFileMode      == 384      \* 0600, the mode createTempSSHKeyFile chmods to
CreateTempMode   == 384      \* 0600, the mode os.CreateTemp creates files with
MaxK8sNameLen    == 253      \* the length ValidateKubernetesName allows
EphemeralPortRange == MaxEphemeralPort - MinEphemeralPort + 1
PodPollInterval  == 1        \* seconds between two polls of waitForPodReady
PodReadyTimeout  == 300      \* seconds waitForPodReady waits, 5 minutes
SSHProbeBufLen   == 4        \* make([]byte, 4) of isSSHReady
NFSProbeBufLen   == 1        \* make([]byte, 1) of isNFSReady
SSHBannerLen     == 3        \* the bytes isSSHReady compares, buf[:3]
ProbeTick        == 500      \* ms, the ticker period of the probe loops
ProbeTimeout     == 30000    \* ms, the timeout the mount passes to the probe loops
DialTimeout      == 1000     \* ms, net.Dialer{Timeout: time.Second}
SSHReadDeadline  == 2000     \* ms, the read deadline of isSSHReady
NFSReadDeadline  == 500      \* ms, the read deadline of isNFSReady

\* ------------------------------------------------------------------- names
\* A name is a fixed textual prefix followed by a random 5-character
\* suffix; the suffix is modelled by a fresh number.
Name(p, s) == [prefix |-> p, suffix |-> s]
NoName     == Name("", 0)

PodPrefix          == "volume-exposer-"
SSHEphemeralPrefix == "volume-exposer-ephemeral-"
NFSCleanPrefix     == "nfs-ganesha-ephemeral-"
TargetPVC          == "pvc-1"
OtherPVC           == "other-pvc"

\* strings.HasPrefix(name, p) over the textual names used here
HasPrefix(name, p) ==
    \/ name.prefix = p
    \/ name.prefix = SSHEphemeralPrefix /\ p = PodPrefix

\* --------------------------------------------------------------- variables
VARIABLES
    pvc,           \* the PVC named TargetPVC and its bound PV
    pods,          \* pods of the namespace, in list order
    forwards,      \* live kubectl port-forward children
    mounted,       \* stack of filesystems mounted on the local mount point
    keyFiles,      \* temp key files on disk
    tempKeyFiles,  \* registry of temp key file paths
    run,           \* the invocation in progress
    last,          \* what the previous invocations left behind
    runs           \* invocations started so far

vars == <<pvc, pods, forwards, mounted, keyFiles, tempKeyFiles, run, last, runs>>

\* ------------------------------------------------------ security contexts
\* A *SecurityContext pointer (set: not nil) and its *RunAsUser (NilUID: nil)
NilUID == -1
UIDs   == {0, 1000, 65534}

SecurityContext(set, uid) == [set |-> set, runAsUser |-> uid]
NoSecurityContext == SecurityContext(FALSE, NilUID)

SecurityContexts ==
    { NoSecurityContext } \cup { SecurityContext(TRUE, u) : u \in UIDs \cup {NilUID} }

\* ------------------------------------------------------------ pod records
\* An ephemeral container: its name, its status (Absent while no status
\* entry exists), the server process its image runs and the invocation
\* whose public key it was given (0: none).
Eph(n, st, srv, k) ==
    [name |-> n, state |-> st, server |-> srv, key |-> k, env |-> <<>>,
     runAsUser |-> NilUID]

\* A pod: name, the labels app / pvcName / backend / portNumber ("" or <<>>
\* when absent), spec.volumes, the PodReady condition, the server of its
\* main container with the key it accepts, and its ephemeral containers in
\* spec order.
Pod(n, app, pvcLabel, backendLabel, portLabel, vols, srv, k) ==
    [name |-> n, app |-> app, pvcName |-> pvcLabel, backend |-> backendLabel,
     portNumber |-> portLabel, volumes |-> vols, ready |-> FALSE,
     server |-> srv, key |-> k, ephs |-> <<>>, env |-> <<>>,
     containers |-> << NoSecurityContext >>, securityContext |-> NoSecurityContext]

Workload(n, vols, ephs) ==
    [Pod(Name("worker-", n), "", "", "", <<>>, vols, "none", 0)
        EXCEPT !.ready = TRUE, !.ephs = ephs]

\* pod.Spec.Volumes: each entry is the claimName of a PVC volume, or "" for
\* a volume that is not a PVC (PersistentVolumeClaim == nil).
WorkloadVolumes == { <<TargetPVC>>, <<OtherPVC, TargetPVC>>, <<"">>, <<OtherPVC>> }

DebugEph == Eph(Name("debugger-", 1), "Running", "none", 0)

Workloads == { Workload(n, v, e) : n \in {7, 8}, v \in WorkloadVolumes, e \in { <<>> } }
             \cup { Workload(7, <<TargetPVC>>, <<DebugEph>>) }

RECURSIVE SeqsUpTo(_, _)
SeqsUpTo(S, n) ==
    IF n = 0 THEN { <<>> }
    ELSE LET shorter == SeqsUpTo(S, n - 1)
         IN  shorter \cup { Append(s, x) : s \in shorter, x \in S }

DistinctNames(ps) == \A i, j \in 1..Len(ps) : ps[i].name = ps[j].name => i = j

InitialPodLists == { ps \in SeqsUpTo(Workloads, MaxWorkloads) : DistinctNames(ps) }

PVCStates ==
    { [exists |-> FALSE, phase |-> "", accessModes |-> {}],
      [exists |-> TRUE, phase |-> "Pending", accessModes |-> {}],
      [exists |-> TRUE, phase |-> "Bound", accessModes |-> {"ReadWriteOnce"}],
      [exists |-> TRUE, phase |-> "Bound", accessModes |-> {"ReadWriteMany"}],
      [exists |-> TRUE, phase |-> "Bound", accessModes |-> {"ReadWriteOnce", "ReadOnlyMany"}] }

\* ---------------------------------------------------------- the invocation
IdleRun ==
    [op |-> "idle", backend |-> "", pc |-> "idle", strategy |-> "",
     canBeMounted |-> FALSE, podUsingPVC |-> NoName, podName |-> NoName,
     containerName |-> NoName, port |-> 0, creates |-> 0, patches |-> 0,
     patchTarget |-> NoName, deletes |-> 0, deleted |-> NoName, reused |-> FALSE,
     pf |-> 0, pfKills |-> 0, pkills |-> 0, execIn |-> NoName, attempt |-> 0,
     keyPath |-> 0, localRuns |-> 0, unmounts |-> 0, lists |-> 0,
     prePods |-> <<>>, preMounted |-> <<>>, pending |-> "", err |-> "",
     keys |-> FALSE, observed |-> FALSE, probed |-> FALSE,
     sig |-> "none", sigFiles |-> {}, lastErr |-> 0, cause |-> 0]

NoLast ==
    [op |-> "none", ok |-> FALSE, backend |-> "", strategy |-> "",
     podName |-> NoName, containerName |-> NoName, pf |-> 0, created |-> FALSE,
     prePods |-> <<>>, preMounted |-> <<>>]

\* the clusters the orchestration is explored on: a PVC with its bound PV
\* and the pods of the namespace before the first invocation
BoundPVC(modes) == [exists |-> TRUE, phase |-> "Bound", accessModes |-> modes]

Cluster(modes, ps) == [pvc |-> BoundPVC(modes), pods |-> ps]

Clusters ==
    { Cluster({"ReadWriteMany"}, <<>>),
      Cluster({"ReadWriteOnce"}, <<>>),
      Cluster({"ReadWriteOnce"}, <<Workload(7, <<TargetPVC>>, <<>>)>>),
      Cluster({"ReadWriteOnce"}, <<Workload(7, <<TargetPVC>>, <<DebugEph>>)>>) }
    \cup { [pvc |-> s, pods |-> <<Workload(7, <<TargetPVC>>, <<>>)>>] :
             s \in { t \in PVCStates : ~t.exists \/ t.phase # "Bound" } }

Init ==
    /\ \E c \in Clusters : pvc = c.pvc /\ pods = c.pods
    /\ forwards = {}
    /\ mounted = <<>>
    /\ keyFiles = {}
    /\ tempKeyFiles = {}
    /\ run = IdleRun
    /\ last = NoLast
    /\ runs = 0

\* ----------------------------------------------------------------- helpers
\* Every invocation draws its own random values: the 5-character suffix,
\* the local port, the temp-file name.  Distinct invocations draw distinct
\* values; the draw of invocation r is modelled by r.
Suffix(r) == r
generatePort(r) == MinEphemeralPort + r

PodNames == { pods[i].name : i \in 1..Len(pods) }

PodNamed(n) == CHOOSE p \in { pods[i] : i \in 1..Len(pods) } : p.name = n

InsertAt(s, i, x) == SubSeq(s, 1, i - 1) \o <<x>> \o SubSeq(s, i, Len(s))

RemoveNamed(s, n) == SelectSeq(s, LAMBDA p : p.name # n)

ReplacePod(n, q) == [i \in 1..Len(pods) |-> IF pods[i].name = n THEN q ELSE pods[i]]

SetEphState(p, cn, st) ==
    [p EXCEPT !.ephs = [k \in 1..Len(p.ephs) |->
        IF p.ephs[k].name = cn THEN [p.ephs[k] EXCEPT !.state = st] ELSE p.ephs[k]]]

Goto(label) == run' = [run EXCEPT !.pc = label]
Fail(e)     == run' = [run EXCEPT !.pc = "done", !.err = e]

\* containsAccessMode: linear scan of the PV's access modes
containsAccessMode(modes, mode) == mode \in modes

\* does the pod have a volume whose claimName is pvcName
RECURSIVE volumeIndex(_, _, _)
volumeIndex(vols, pvcName, k) ==
    IF k > Len(vols) THEN 0
    ELSE IF vols[k] # "" /\ vols[k] = pvcName THEN k
    ELSE volumeIndex(vols, pvcName, k + 1)

\* findPodUsingPVC: outer loop over pods, inner loop over volumes, returns
\* the name of the first pod with a matching volume, or "" (NoName)
RECURSIVE findPodUsingPVCFrom(_, _, _)
findPodUsingPVCFrom(ps, pvcName, i) ==
    IF i > Len(ps) THEN NoName
    ELSE IF volumeIndex(ps[i].volumes, pvcName, 1) # 0 THEN ps[i].name
    ELSE findPodUsingPVCFrom(ps, pvcName, i + 1)

\* the scan without its early return: the last match wins
RECURSIVE findLastPodUsingPVCFrom(_, _, _, _)
findLastPodUsingPVCFrom(ps, pvcName, i, found) ==
    IF i > Len(ps) THEN found
    ELSE findLastPodUsingPVCFrom(ps, pvcName, i + 1,
            IF volumeIndex(ps[i].volumes, pvcName, 1) # 0 THEN ps[i].name ELSE found)

findLastPodUsingPVC(ps, pvcName) == findLastPodUsingPVCFrom(ps, pvcName, 1, NoName)

findPodUsingPVC(ps, pvcName) == findPodUsingPVCFrom(ps, pvcName, 1)

\* checkPVAccessMode: pvOK / listOK are the outcomes of the PV Get and of
\* the pod List
checkPVAccessMode(thePVC, ps, pvOK, listOK) ==
    IF ~pvOK THEN
        [canBeMounted |-> TRUE, podUsingPVC |-> NoName, err |-> "failed to get PV"]
    ELSE IF ~containsAccessMode(thePVC.accessModes, "ReadWriteOnce") THEN
        [canBeMounted |-> TRUE, podUsingPVC |-> NoName, err |-> ""]
    ELSE IF ~listOK THEN
        [canBeMounted |-> TRUE, podUsingPVC |-> NoName, err |-> "failed to list pods"]
    ELSE LET podName == findPodUsingPVC(ps, TargetPVC)
         IN  IF podName # NoName
             THEN [canBeMounted |-> FALSE, podUsingPVC |-> podName, err |-> ""]
             ELSE [canBeMounted |-> TRUE, podUsingPVC |-> NoName, err |-> ""]

\* getPVCVolumeName: index of the first volume of the pod that is a PVC
\* volume with a non-empty claimName, or 0
RECURSIVE getPVCVolumeNameFrom(_, _)
getPVCVolumeNameFrom(vols, k) ==
    IF k > Len(vols) THEN 0
    ELSE IF vols[k] # "" THEN k
    ELSE getPVCVolumeNameFrom(vols, k + 1)

getPVCVolumeName(p) == getPVCVolumeNameFrom(p.volumes, 1)

\* ------------------------------------------------------------------ mount
\* Mount: validation of the three arguments, in order
StartMount ==
    /\ run.op = "idle"
    /\ runs < MaxRuns
    /\ \E b \in {"ssh", "nfs"}, nsOK, pvcOK, mpOK \in BOOLEAN :
        LET e == IF ~nsOK THEN "invalid namespace"
                 ELSE IF ~pvcOK THEN "invalid pvc-name"
                 ELSE IF ~mpOK THEN "local mount point does not exist"
                 ELSE ""
        IN  run' = [IdleRun EXCEPT !.op = "mount", !.backend = b, !.prePods = pods,
                                   !.preMounted = mounted,
                                   !.pc = IF e = "" THEN "checkPVCUsage" ELSE "done",
                                   !.err = e]
    /\ runs' = runs + 1
    /\ UNCHANGED <<pvc, pods, forwards, mounted, keyFiles, tempKeyFiles, last>>

\* a check that fetches the PVC and never looks at its phase
CheckPVCUsageAnyPhase ==
    /\ run.op = "mount" /\ run.pc = "checkPVCUsage"
    /\ \E apiOK \in BOOLEAN :
        IF ~apiOK \/ ~pvc.exists THEN Fail("failed to get PVC")
        ELSE Goto("checkPVAccessMode")
    /\ UNCHANGED <<pvc, pods, forwards, mounted, keyFiles, tempKeyFiles, last, runs>>

\* checkPVCUsage: the PVC must exist and be Bound
CheckPVCUsage ==
    /\ run.op = "mount" /\ run.pc = "checkPVCUsage"
    /\ \E apiOK \in BOOLEAN :
        IF ~apiOK \/ ~pvc.exists THEN Fail("failed to get PVC")
        ELSE IF pvc.phase # "Bound" THEN Fail("PVC is not bound")
        ELSE Goto("checkPVAccessMode")
    /\ UNCHANGED <<pvc, pods, forwards, mounted, keyFiles, tempKeyFiles, last, runs>>

\* strategy table: (verdict, backend) -> S1..S4
Strategy(canBeMounted, backend) ==
    IF canBeMounted
    THEN (IF backend = "nfs" THEN "S3" ELSE "S1")
    ELSE (IF backend = "nfs" THEN "S4" ELSE "S2")

\* first step of each handler: handleRWX, handleRWO, handleRWXNFS, handleRWONFS
FirstStep(strategy) ==
    CASE strategy = "S1" -> "generateAndDebugKeys"
      [] strategy = "S2" -> "generateAndDebugKeys"
      [] strategy = "S3" -> "setupNFSPod"
      [] strategy = "S4" -> "findRunningNFSEphemeralContainer"

\* Mount: the probe and the dispatch to the handler
Probe ==
    /\ run.op = "mount" /\ run.pc = "checkPVAccessMode"
    /\ \E pvOK, listOK \in BOOLEAN :
        LET r == checkPVAccessMode(pvc, pods, pvOK, listOK)
            s == Strategy(r.canBeMounted, run.backend)
        IN  IF r.err # "" THEN Fail(r.err)
            ELSE run' = [run EXCEPT !.canBeMounted = r.canBeMounted,
                                    !.podUsingPVC = r.podUsingPVC,
                                    !.strategy = s,
                                    !.pc = FirstStep(s)]
    /\ UNCHANGED <<pvc, pods, forwards, mounted, keyFiles, tempKeyFiles, last, runs>>

\* both SSH handlers provisioning a standalone pod
GenerateAndDebugKeysThenPod ==
    /\ run.op = "mount" /\ run.pc = "generateAndDebugKeys"
    /\ \E ok \in BOOLEAN :
        IF ~ok THEN Fail("error generating key pair") ELSE Goto("setupPod")
    /\ UNCHANGED <<pvc, pods, forwards, mounted, keyFiles, tempKeyFiles, last, runs>>

\* generateAndDebugKeys (handleRWX, handleRWO)
GenerateAndDebugKeys ==
    /\ run.op = "mount" /\ run.pc = "generateAndDebugKeys"
    /\ \E ok \in BOOLEAN :
        IF ~ok THEN Fail("error generating key pair")
        ELSE run' = [run EXCEPT !.keys = TRUE,
                                !.pc = IF run.strategy = "S1" THEN "setupPod"
                                       ELSE "createEphemeralContainer"]
    /\ UNCHANGED <<pvc, pods, forwards, mounted, keyFiles, tempKeyFiles, last, runs>>

\* ------------------------------------------------- the exposer, as reached
\* The container of pod p that listens on the port of server srv: the main
\* container of a Ready pod, else the first Running ephemeral container
\* with that server (containers of a pod share one network namespace, so a
\* second server on the same port cannot start).
RECURSIVE RunningEphFrom(_, _, _)
RunningEphFrom(ephs, srv, k) ==
    IF k > Len(ephs) THEN 0
    ELSE IF ephs[k].state = "Running" /\ ephs[k].server = srv THEN k
    ELSE RunningEphFrom(ephs, srv, k + 1)

Listener(p, srv) ==
    IF p.server = srv /\ p.ready
    THEN [kind |-> "main", name |-> p.name, key |-> p.key]
    ELSE LET k == RunningEphFrom(p.ephs, srv, 1)
         IN  IF k = 0 THEN [kind |-> "none", name |-> NoName, key |-> 0]
             ELSE [kind |-> "eph", name |-> p.ephs[k].name, key |-> p.ephs[k].key]

Listening(n, srv) == n \in PodNames /\ Listener(PodNamed(n), srv).kind # "none"

Forward(id, pod, port, remote) == [id |-> id, pod |-> pod, port |-> port, remote |-> remote]

ForwardAlive(id) == \E f \in forwards : f.id = id

\* strconv.Itoa of a non-negative number: its decimal digits
RECURSIVE Itoa(_)
Itoa(n) == IF n < 10 THEN <<n>> ELSE Append(Itoa(n \div 10), n % 10)

\* ------------------------------------------------------------ environment
\* GenerateKeyPair: the two halves of the key pair of invocation r
PrivateKey(r) == [kind |-> "private", pair |-> r]
PublicKey(r)  == [kind |-> "public", pair |-> r]
Text          == [kind |-> "text", pair |-> 0]

EnvVar(name, value) == [name |-> name, value |-> value]

\* buildEnvVars: the environment of the sshd exposer
buildEnvVars(publicKey) ==
    << EnvVar("SSH_PUBLIC_KEY", publicKey), EnvVar("NEEDS_ROOT", Text) >>

\* buildNFSEnvVars: the environment of the NFS-Ganesha exposer
buildNFSEnvVars == << EnvVar("NEEDS_ROOT", Text), EnvVar("LOG_LEVEL", Text) >>

\* ------------------------------------------------------- standalone pods
\* buildPodLabels + buildContainer + attachPVCToPod: the SSH exposer pod
createPodSpec(podName, port, pvcName, key) ==
    [Pod(podName, "volume-exposer", pvcName, "", Itoa(port), <<pvcName>>, "sshd", key)
        EXCEPT !.env = buildEnvVars(PublicKey(key))]

\* an NFS exposer pod labelled like the SSH one
createNFSPodSpecUnlabelled(podName, port, pvcName) ==
    [Pod(podName, "volume-exposer", pvcName, "", Itoa(port), <<pvcName>>, "ganesha", 0)
        EXCEPT !.env = buildNFSEnvVars]

\* buildNFSPodLabels + buildNFSContainer + attachPVCToPod: the NFS exposer pod
createNFSPodSpec(podName, port, pvcName) ==
    [Pod(podName, "volume-exposer", pvcName, "nfs", Itoa(port), <<pvcName>>, "ganesha", 0)
        EXCEPT !.env = buildNFSEnvVars]

\* the pod Create call: the new pod takes the place its name has in the list
CreatePod(spec, port, next) ==
    \E ok \in BOOLEAN :
        IF ~ok
        THEN /\ run' = [run EXCEPT !.pc = "done", !.err = "failed to create pod",
                                   !.creates = @ + 1]
             /\ UNCHANGED pods
        ELSE /\ \E pos \in 1..(Len(pods) + 1) : pods' = InsertAt(pods, pos, spec)
             /\ run' = [run EXCEPT !.pc = next, !.podName = spec.name,
                                   !.port = port, !.creates = @ + 1]

\* setupPod (handleRWX via setupPodAndWait)
SetupPod ==
    /\ run.op = "mount" /\ run.pc = "setupPod"
    /\ CreatePod(createPodSpec(Name(PodPrefix, Suffix(runs)), generatePort(runs), TargetPVC, runs),
                 generatePort(runs),
                 "waitForPodReady")
    /\ UNCHANGED <<pvc, forwards, mounted, keyFiles, tempKeyFiles, last, runs>>

\* setupNFSPod (handleRWXNFS)
SetupNFSPod ==
    /\ run.op = "mount" /\ run.pc = "setupNFSPod"
    /\ CreatePod(createNFSPodSpec(Name(PodPrefix, Suffix(runs)), generatePort(runs), TargetPVC),
                 generatePort(runs),
                 "waitForPodReady")
    /\ UNCHANGED <<pvc, forwards, mounted, keyFiles, tempKeyFiles, last, runs>>

\* a setup that goes on to the tunnel without polling the pod
WaitForPodReadySkipped ==
    /\ run.op = "mount" /\ run.pc = "waitForPodReady"
    /\ Goto(IF run.backend = "nfs" THEN "setupNFSPortForwarding" ELSE "setupPortForwarding")
    /\ UNCHANGED <<pvc, pods, forwards, mounted, keyFiles, tempKeyFiles, last, runs>>

\* waitForPodReady: polls until PodReady=True, an API error or the deadline
WaitForPodReady ==
    /\ run.op = "mount" /\ run.pc = "waitForPodReady"
    /\ \E outcome \in {"ready", "apierr", "timeout"} :
        IF outcome = "ready"
        THEN /\ pods' = ReplacePod(run.podName, [PodNamed(run.podName) EXCEPT !.ready = TRUE])
             /\ run' = [run EXCEPT !.observed = TRUE,
                                   !.pc = IF run.backend = "nfs" THEN "setupNFSPortForwarding"
                                                                 ELSE "setupPortForwarding"]
        ELSE /\ Fail(IF outcome = "apierr" THEN "failed to get pod"
                                           ELSE "timeout waiting for pod")
             /\ UNCHANGED pods
    /\ UNCHANGED <<pvc, forwards, mounted, keyFiles, tempKeyFiles, last, runs>>

\* --------------------------------------------------- ephemeral containers
\* patchPodWithEphemeralContainer: strategic-merge patch of the
\* ephemeralcontainers subresource; the new container is appended
PatchPod(podName, eph) ==
    ReplacePod(podName, [PodNamed(podName) EXCEPT !.ephs = Append(@, eph)])

\* the body shared by createEphemeralContainer and createNFSEphemeralContainer:
\* Get the pod, find its PVC volume, patch
AddEphemeral(eph) ==
    \E getOK, patchOK \in BOOLEAN :
        IF ~getOK \/ run.podUsingPVC \notin PodNames THEN
            /\ Fail("failed to get existing pod")
            /\ UNCHANGED pods
        ELSE IF getPVCVolumeName(PodNamed(run.podUsingPVC)) = 0 THEN
            /\ Fail("failed to find volume name in the existing pod")
            /\ UNCHANGED pods
        ELSE IF ~patchOK THEN
            /\ run' = [run EXCEPT !.pc = "done", !.patches = @ + 1,
                                  !.patchTarget = run.podUsingPVC,
                                  !.err = "failed to patch pod with ephemeral container"]
            /\ UNCHANGED pods
        ELSE
            /\ pods' = PatchPod(run.podUsingPVC, eph)
            /\ run' = [run EXCEPT !.pc = "waitForEphemeralContainerReady",
                                  !.patches = @ + 1, !.patchTarget = run.podUsingPVC,
                                  !.podName = run.podUsingPVC, !.port = generatePort(runs),
                                  !.containerName = eph.name]

\* an ephemeral container handed both halves of the key pair
buildEphemeralContainerSpecWithPrivateKey(name, publicKey) ==
    [Eph(name, "Absent", "sshd", publicKey.pair)
        EXCEPT !.env = << EnvVar("SSH_PRIVATE_KEY", PrivateKey(publicKey.pair)) >>
                       \o buildEnvVars(publicKey)]

\* buildEphemeralContainerSpec: the sshd ephemeral container
buildEphemeralContainerSpec(name, publicKey) ==
    [Eph(name, "Absent", "sshd", publicKey.pair)
        EXCEPT !.env = << EnvVar("SSH_PUBLIC_KEY", publicKey), EnvVar("NEEDS_ROOT", Text) >>]

\* the fallback the comment of detectPodUID announces
detectPodUIDNobody(pod) ==
    IF /\ Len(pod.containers) > 0
       /\ pod.containers[1].set /\ pod.containers[1].runAsUser # NilUID
    THEN pod.containers[1].runAsUser
    ELSE IF pod.securityContext.set /\ pod.securityContext.runAsUser # NilUID
    THEN pod.securityContext.runAsUser
    ELSE 65534

\* detectPodUID: the first container's RunAsUser, else the pod's, else 0
detectPodUID(pod) ==
    IF /\ Len(pod.containers) > 0
       /\ pod.containers[1].set /\ pod.containers[1].runAsUser # NilUID
    THEN pod.containers[1].runAsUser
    ELSE IF pod.securityContext.set /\ pod.securityContext.runAsUser # NilUID
    THEN pod.securityContext.runAsUser
    ELSE 0

\* buildNFSEphemeralContainerSpec: the NFS-Ganesha ephemeral container
buildNFSEphemeralContainerSpec(name, runAsUser) ==
    [Eph(name, "Absent", "ganesha", 0)
        EXCEPT !.env = buildNFSEnvVars \o << EnvVar("FORCE_VFS", Text) >>,
               !.runAsUser = runAsUser]

\* createEphemeralContainer (handleRWO)
CreateEphemeralContainer ==
    /\ run.op = "mount" /\ run.pc = "createEphemeralContainer"
    /\ AddEphemeral(buildEphemeralContainerSpec(Name(SSHEphemeralPrefix, Suffix(runs)),
                                                PublicKey(runs)))
    /\ UNCHANGED <<pvc, forwards, mounted, keyFiles, tempKeyFiles, last, runs>>

\* name that createNFSEphemeralContainer gives the container
NFSEphemeralName(suffix) == Name(PodPrefix, suffix)

\* createNFSEphemeralContainer (handleRWONFS)
CreateNFSEphemeralContainer ==
    /\ run.op = "mount" /\ run.pc = "createNFSEphemeralContainer"
    /\ AddEphemeral(buildNFSEphemeralContainerSpec(NFSEphemeralName(Suffix(runs)),
                                                   detectPodUID(PodNamed(run.podUsingPVC))))
    /\ UNCHANGED <<pvc, forwards, mounted, keyFiles, tempKeyFiles, last, runs>>

\* findRunningNFSEphemeralContainer: first status entry that carries the
\* prefix and is Running (0: none)
RECURSIVE findRunningNFSFrom(_, _)
findRunningNFSFrom(ephs, k) ==
    IF k > Len(ephs) THEN 0
    ELSE IF HasPrefix(ephs[k].name, PodPrefix) /\ ephs[k].state = "Running" THEN k
    ELSE findRunningNFSFrom(ephs, k + 1)

findRunningNFSEphemeralContainer(p) == findRunningNFSFrom(p.ephs, 1)

\* handleRWONFS up to the decision to reuse or to inject
FindRunningNFSEphemeralContainer ==
    /\ run.op = "mount" /\ run.pc = "findRunningNFSEphemeralContainer"
    /\ \E getOK \in BOOLEAN :
        IF ~getOK \/ run.podUsingPVC \notin PodNames THEN Fail("failed to get pod")
        ELSE LET p == PodNamed(run.podUsingPVC)
                 k == findRunningNFSEphemeralContainer(p)
             IN  IF k # 0
                 THEN run' = [run EXCEPT !.pc = "setupNFSPortForwarding", !.reused = TRUE,
                                         !.observed = TRUE,
                                         !.podName = run.podUsingPVC,
                                         !.port = generatePort(runs),
                                         !.containerName = p.ephs[k].name]
                 ELSE Goto("createNFSEphemeralContainer")
    /\ UNCHANGED <<pvc, pods, forwards, mounted, keyFiles, tempKeyFiles, last, runs>>

\* a waiter that decides from the first status entry of the pod, whatever
\* its name
checkEphemeralContainerStatusFirst(p, containerName) ==
    LET S == { k \in 1..Len(p.ephs) : p.ephs[k].state # "Absent" }
    IN  IF S = {} THEN "poll"
        ELSE LET st == p.ephs[CHOOSE k \in S : \A j \in S : k <= j].state
             IN  CASE st = "Running"    -> "ready"
                   [] st = "Waiting"    -> "poll"
                   [] st = "Terminated" -> "terminated"

\* a waiter that gives up as soon as any ephemeral container of the pod has
\* terminated
checkEphemeralContainerStatusAnyTerminated(p, containerName) ==
    LET S == { k \in 1..Len(p.ephs) : p.ephs[k].name = containerName /\ p.ephs[k].state # "Absent" }
    IN  IF \E k \in 1..Len(p.ephs) : p.ephs[k].state = "Terminated" THEN "terminated"
        ELSE IF S = {} THEN "poll"
        ELSE LET st == p.ephs[CHOOSE k \in S : \A j \in S : k <= j].state
             IN  CASE st = "Running"    -> "ready"
                   [] st = "Waiting"    -> "poll"
                   [] OTHER             -> "poll"

\* checkEphemeralContainerStatus: the first status entry with the given
\* name decides; no entry (Absent), Waiting and an entry with no state set
\* keep polling
checkEphemeralContainerStatus(p, containerName) ==
    LET S == { k \in 1..Len(p.ephs) : p.ephs[k].name = containerName /\ p.ephs[k].state # "Absent" }
    IN  IF S = {} THEN "poll"
        ELSE LET st == p.ephs[CHOOSE k \in S : \A j \in S : k <= j].state
             IN  CASE st = "Running"    -> "ready"
                   [] st = "Waiting"    -> "poll"
                   [] st = "Terminated" -> "terminated"
                   [] OTHER             -> "poll"

\* states the kubelet can bring the new container to while the waiter polls:
\* it runs only if its server can bind its port in the pod
EphOutcomes(p, containerName) ==
    LET S == { k \in 1..Len(p.ephs) : p.ephs[k].name = containerName }
        e == p.ephs[CHOOSE k \in S : TRUE]
    IN  {"Absent", "Waiting", "Terminated"}
        \cup (IF Listener(p, e.server).kind = "none" THEN {"Running"} ELSE {})

\* waitForEphemeralContainerReady (handleRWO, handleRWONFS)
WaitForEphemeralContainerReady ==
    /\ run.op = "mount" /\ run.pc = "waitForEphemeralContainerReady"
    /\ \E getOK \in BOOLEAN :
        IF ~getOK THEN Fail("failed to get pod") /\ UNCHANGED pods
        ELSE \E st \in EphOutcomes(PodNamed(run.podName), run.containerName) :
            LET q == SetEphState(PodNamed(run.podName), run.containerName, st)
                v == checkEphemeralContainerStatus(q, run.containerName)
            IN  /\ pods' = ReplacePod(run.podName, q)
                /\ IF v = "ready"
                   THEN run' = [run EXCEPT !.observed = TRUE,
                                !.pc = IF run.backend = "nfs" THEN "setupNFSPortForwarding"
                                                              ELSE "setupPortForwarding"]
                   ELSE IF v = "terminated" THEN Fail("ephemeral container terminated")
                   ELSE Fail("timeout waiting for ephemeral container")
    /\ UNCHANGED <<pvc, forwards, mounted, keyFiles, tempKeyFiles, last, runs>>

\* ------------------------------------------------------------ port-forward
\* cmd.Start of kubectl port-forward pod/<pod> <local>:<remote>
StartPortForward(remote, next) ==
    \E ok \in BOOLEAN :
        IF ~ok
        THEN /\ Fail("failed to start port-forward")
             /\ UNCHANGED forwards
        ELSE /\ forwards' = forwards \cup { Forward(runs, run.podName, run.port, remote) }
             /\ run' = [run EXCEPT !.pc = next, !.pf = runs]

\* a cleanup that leaves the child alone
cleanupPortForwardSkipped(id) == forwards

\* cleanupPortForward: Process.Kill of the child
cleanupPortForward(id) == { f \in forwards : f.id # id }

\* a tunnel setup that only sleeps after starting the child and probes nothing
AwaitBackendSleepOnly(srv, next, msg) ==
    Goto(next) /\ UNCHANGED forwards

\* a tunnel setup that kills the child on a failed probe but hands the
\* caller a handle all the same
AwaitBackendKeepGoing(srv, next, msg) ==
    \E ready \in BOOLEAN :
        IF ready /\ ForwardAlive(run.pf) /\ Listening(run.podName, srv)
        THEN run' = [run EXCEPT !.pc = next, !.probed = TRUE] /\ UNCHANGED forwards
        ELSE /\ forwards' = cleanupPortForward(run.pf)
             /\ run' = [run EXCEPT !.pc = next, !.pfKills = @ + 1]

\* the readiness wait of setupPortForwarding / setupNFSPortForwarding: on
\* failure the child is killed and the error returned
AwaitBackend(srv, next, msg) ==
    \E ready \in BOOLEAN :
        IF ready /\ ForwardAlive(run.pf) /\ Listening(run.podName, srv)
        THEN run' = [run EXCEPT !.pc = next, !.probed = TRUE] /\ UNCHANGED forwards
        ELSE /\ forwards' = cleanupPortForward(run.pf)
             /\ run' = [run EXCEPT !.pc = "done", !.err = msg, !.pfKills = @ + 1]

\* setupPortForwarding: start of the child
SetupPortForwarding ==
    /\ run.op = "mount" /\ run.pc = "setupPortForwarding"
    /\ StartPortForward(DefaultSSHPort, "waitForSSHReady")
    /\ UNCHANGED <<pvc, pods, mounted, keyFiles, tempKeyFiles, last, runs>>

\* setupPortForwarding: waitForSSHReady and its error path
WaitForSSHReady ==
    /\ run.op = "mount" /\ run.pc = "waitForSSHReady"
    /\ AwaitBackend("sshd", "createTemp", "failed to establish SSH connection")
    /\ UNCHANGED <<pvc, pods, mounted, keyFiles, tempKeyFiles, last, runs>>

\* setupNFSPortForwarding: start of the child
SetupNFSPortForwarding ==
    /\ run.op = "mount" /\ run.pc = "setupNFSPortForwarding"
    /\ StartPortForward(DefaultNFSPort, "waitForNFSReady")
    /\ UNCHANGED <<pvc, pods, mounted, keyFiles, tempKeyFiles, last, runs>>

\* setupNFSPortForwarding: waitForNFSReady and its error path
WaitForNFSReady ==
    /\ run.op = "mount" /\ run.pc = "waitForNFSReady"
    /\ AwaitBackend("ganesha", "mountPVCOverNFS", "failed to establish NFS connection")
    /\ UNCHANGED <<pvc, pods, mounted, keyFiles, tempKeyFiles, last, runs>>

\* ------------------------------------------------------- the temp key file
KeyFile(path, mode, hasKey) == [path |-> path, mode |-> mode, hasKey |-> hasKey]

FileExists(path) == \E f \in keyFiles : f.path = path

\* os.Chmod(path, mode): by path, so it fails once the path is unlinked
WithMode(path, mode) ==
    { IF f.path = path THEN [f EXCEPT !.mode = mode] ELSE f : f \in keyFiles }

\* tmpFile.Write(privateKey): through the open descriptor; the bytes of an
\* unlinked file are under no path
WithKey(path) ==
    { IF f.path = path THEN [f EXCEPT !.hasKey = TRUE] ELSE f : f \in keyFiles }

\* registerTempKeyFile / unregisterTempKeyFile
registerTempKeyFile(path)   == tempKeyFiles \cup {path}
unregisterTempKeyFile(path) == tempKeyFiles \ {path}

\* os.Remove(path)
RemoveFile(path) == { f \in keyFiles : f.path # path }

\* the failure branch returning the error without running cleanup()
KeyStepNoCleanup(ok, onOK, next, msg) ==
    IF ok
    THEN /\ keyFiles' = onOK
         /\ Goto(next)
    ELSE /\ UNCHANGED keyFiles
         /\ run' = [run EXCEPT !.pc = "mountReturn", !.pending = msg]

\* a step of createTempSSHKeyFile that can fail: on failure cleanup() runs
\* and the error is returned
KeyStep(ok, onOK, next, msg) ==
    IF ok
    THEN /\ keyFiles' = onOK
         /\ Goto(next)
    ELSE /\ UNCHANGED keyFiles
         /\ run' = [run EXCEPT !.pc = "cleanupRemove", !.pending = msg]

\* createTempSSHKeyFile: os.CreateTemp
CreateTemp ==
    /\ run.op = "mount" /\ run.pc = "createTemp"
    /\ \E ok \in BOOLEAN :
        IF ok
        THEN /\ keyFiles' = keyFiles \cup { KeyFile(runs, CreateTempMode, FALSE) }
             /\ run' = [run EXCEPT !.pc = "registerTempKeyFile", !.keyPath = runs]
        ELSE /\ run' = [run EXCEPT !.pc = "mountReturn",
                                   !.pending = "failed to create temporary file"]
             /\ UNCHANGED keyFiles
    /\ UNCHANGED <<pvc, pods, forwards, mounted, tempKeyFiles, last, runs>>

\* the key written to a file never registered for cleanup
RegisterTempKeyFileSkipped ==
    /\ run.op = "mount" /\ run.pc = "registerTempKeyFile"
    /\ Goto("chmod")
    /\ UNCHANGED <<pvc, pods, forwards, mounted, keyFiles, tempKeyFiles, last, runs>>

\* createTempSSHKeyFile: registerTempKeyFile(keyFilePath)
RegisterTempKeyFile ==
    /\ run.op = "mount" /\ run.pc = "registerTempKeyFile"
    /\ tempKeyFiles' = registerTempKeyFile(run.keyPath)
    /\ Goto("chmod")
    /\ UNCHANGED <<pvc, pods, forwards, mounted, keyFiles, last, runs>>

\* createTempSSHKeyFile: os.Chmod(keyFilePath, 0600)
Chmod ==
    /\ run.op = "mount" /\ run.pc = "chmod"
    /\ \E ok \in BOOLEAN :
        KeyStep(ok /\ FileExists(run.keyPath), WithMode(run.keyPath, KeyFileMode),
                "write", "failed to set permissions on temporary SSH key file")
    /\ UNCHANGED <<pvc, pods, forwards, mounted, tempKeyFiles, last, runs>>

\* createTempSSHKeyFile: tmpFile.Write(privateKey)
WriteKey ==
    /\ run.op = "mount" /\ run.pc = "write"
    /\ \E ok \in BOOLEAN :
        KeyStep(ok, WithKey(run.keyPath),
                "close", "failed to write SSH private key to temporary file")
    /\ UNCHANGED <<pvc, pods, forwards, mounted, tempKeyFiles, last, runs>>

\* createTempSSHKeyFile: tmpFile.Close()
CloseKey ==
    /\ run.op = "mount" /\ run.pc = "close"
    /\ \E ok \in BOOLEAN :
        KeyStep(ok, keyFiles, "sshfs", "failed to close temporary file")
    /\ UNCHANGED <<pvc, pods, forwards, mounted, tempKeyFiles, last, runs>>

\* mountPVCOverSSH: sshfsCmd.Run().  sshfs can mount only through a live
\* tunnel to an sshd that accepts the key of this invocation.
Sshfs ==
    /\ run.op = "mount" /\ run.pc = "sshfs"
    /\ \E ok \in BOOLEAN :
        IF /\ ok
           /\ ForwardAlive(run.pf)
           /\ Listening(run.podName, "sshd")
           /\ Listener(PodNamed(run.podName), "sshd").key = runs
        THEN /\ mounted' = Append(mounted, "ssh")
             /\ run' = [run EXCEPT !.pc = "cleanupRemove", !.localRuns = @ + 1]
        ELSE /\ UNCHANGED mounted
             /\ run' = [run EXCEPT !.pc = "cleanupRemove", !.localRuns = @ + 1,
                                   !.pending = "failed to mount PVC using SSHFS"]
    /\ UNCHANGED <<pvc, pods, forwards, keyFiles, tempKeyFiles, last, runs>>

\* cleanup(): os.Remove(keyFilePath)
CleanupRemove ==
    /\ run.op = "mount" /\ run.pc = "cleanupRemove"
    /\ keyFiles' = RemoveFile(run.keyPath)
    /\ Goto("cleanupUnregister")
    /\ UNCHANGED <<pvc, pods, forwards, mounted, tempKeyFiles, last, runs>>

\* cleanup(): unregisterTempKeyFile(keyFilePath); mountPVCOverSSH returns
CleanupUnregister ==
    /\ run.op = "mount" /\ run.pc = "cleanupUnregister"
    /\ tempKeyFiles' = unregisterTempKeyFile(run.keyPath)
    /\ Goto("mountReturn")
    /\ UNCHANGED <<pvc, pods, forwards, mounted, keyFiles, last, runs>>

\* mountPVCOverNFS without the retry loop: the error of the only attempt
MountPVCOverNFSOnce ==
    /\ run.op = "mount" /\ run.pc = "mountPVCOverNFS"
    /\ \E ok \in BOOLEAN :
        IF ok /\ ForwardAlive(run.pf) /\ Listening(run.podName, "ganesha")
        THEN /\ mounted' = Append(mounted, "nfs")
             /\ run' = [run EXCEPT !.pc = "mountReturn", !.attempt = @ + 1,
                                   !.localRuns = @ + 1]
        ELSE /\ UNCHANGED mounted
             /\ run' = [run EXCEPT !.pc = "mountReturn", !.attempt = @ + 1,
                                   !.localRuns = @ + 1, !.lastErr = run.attempt + 1,
                                   !.cause = run.attempt + 1,
                                   !.pending = "failed to mount PVC using NFS"]
    /\ UNCHANGED <<pvc, pods, forwards, keyFiles, tempKeyFiles, last, runs>>

\* mountPVCOverNFS: one attempt of the retry loop.  An error is named by the
\* attempt that returned it; lastErr holds the latest, and the error returned
\* after the loop wraps lastErr.
MountPVCOverNFS ==
    /\ run.op = "mount" /\ run.pc = "mountPVCOverNFS"
    /\ run.attempt < maxRetries
    /\ \E ok \in BOOLEAN :
        IF ok /\ ForwardAlive(run.pf) /\ Listening(run.podName, "ganesha")
        THEN /\ mounted' = Append(mounted, "nfs")
             /\ run' = [run EXCEPT !.pc = "mountReturn", !.attempt = @ + 1,
                                   !.localRuns = @ + 1]
        ELSE /\ UNCHANGED mounted
             /\ LET lastErr == run.attempt + 1
                    over == run.attempt + 1 = maxRetries
                IN  run' = [run EXCEPT
                        !.attempt = @ + 1, !.localRuns = @ + 1,
                        !.lastErr = lastErr,
                        !.pc = IF over THEN "mountReturn" ELSE @,
                        !.cause = IF over THEN lastErr ELSE @,
                        !.pending = IF over THEN "failed to mount PVC using NFS" ELSE @]
    /\ UNCHANGED <<pvc, pods, forwards, keyFiles, tempKeyFiles, last, runs>>

\* an error path that also deletes the pod the invocation works with
MountReturnDeletingPod ==
    /\ run.op = "mount" /\ run.pc = "mountReturn"
    /\ IF run.pending # ""
       THEN /\ forwards' = cleanupPortForward(run.pf)
            /\ pods' = RemoveNamed(pods, run.podName)
            /\ run' = [run EXCEPT !.pc = "done", !.err = run.pending, !.pfKills = @ + 1]
       ELSE /\ Goto("done")
            /\ UNCHANGED <<forwards, pods>>
    /\ UNCHANGED <<pvc, mounted, keyFiles, tempKeyFiles, last, runs>>

\* setupPortForwardAndMount / setupNFSPortForwardAndMount after the local
\* mount returned: on error the port-forward child is killed
MountReturn ==
    /\ run.op = "mount" /\ run.pc = "mountReturn"
    /\ IF run.pending # ""
       THEN /\ forwards' = cleanupPortForward(run.pf)
            /\ run' = [run EXCEPT !.pc = "done", !.err = run.pending, !.pfKills = @ + 1]
       ELSE /\ Goto("done")
            /\ UNCHANGED forwards
    /\ UNCHANGED <<pvc, pods, mounted, keyFiles, tempKeyFiles, last, runs>>

\* ------------------------------------------------------------------ clean
\* a clean that notes the validation error and goes on to the unmount
StartCleanValidatingLate ==
    /\ run.op = "idle"
    /\ runs < MaxRuns
    /\ \E b \in {"ssh", "nfs"}, nsOK, pvcOK \in BOOLEAN :
        LET e == IF ~nsOK THEN "invalid namespace"
                 ELSE IF ~pvcOK THEN "invalid pvc-name"
                 ELSE ""
        IN  run' = [IdleRun EXCEPT !.op = "clean", !.backend = b, !.prePods = pods,
                                   !.preMounted = mounted,
                                   !.pc = "unmount", !.err = e]
    /\ runs' = runs + 1
    /\ UNCHANGED <<pvc, pods, forwards, mounted, keyFiles, tempKeyFiles, last>>

\* Clean: validation of namespace and PVC name, then the backend's path
StartClean ==
    /\ run.op = "idle"
    /\ runs < MaxRuns
    /\ \E b \in {"ssh", "nfs"}, nsOK, pvcOK \in BOOLEAN :
        LET e == IF ~nsOK THEN "invalid namespace"
                 ELSE IF ~pvcOK THEN "invalid pvc-name"
                 ELSE ""
        IN  run' = [IdleRun EXCEPT !.op = "clean", !.backend = b, !.prePods = pods,
                                   !.preMounted = mounted,
                                   !.pc = IF e = "" THEN "unmount" ELSE "done",
                                   !.err = e]
    /\ runs' = runs + 1
    /\ UNCHANGED <<pvc, pods, forwards, mounted, keyFiles, tempKeyFiles, last>>

\* what the unmount command of the backend can unmount: fusermount -u
\* (SSH on Linux) only a FUSE mount, umount (SSH on macOS, NFS) any mount
CanUnmount(backend, goos) ==
    /\ mounted # <<>>
    /\ backend = "nfs" \/ goos = "darwin" \/ mounted[Len(mounted)] = "ssh"

\* an unmount whose failure is only reported, not returned
UnmountBestEffort ==
    /\ run.op = "clean" /\ run.pc = "unmount"
    /\ \E ok \in BOOLEAN, goos \in {"linux", "darwin"} :
        /\ mounted' = IF ok /\ CanUnmount(run.backend, goos)
                      THEN SubSeq(mounted, 1, Len(mounted) - 1) ELSE mounted
        /\ run' = [run EXCEPT !.pc = "listLabelled", !.unmounts = @ + 1]
    /\ UNCHANGED <<pvc, pods, forwards, keyFiles, tempKeyFiles, last, runs>>

\* Clean / cleanNFS: the local unmount; its failure is returned
Unmount ==
    /\ run.op = "clean" /\ run.pc = "unmount"
    /\ \E ok \in BOOLEAN, goos \in {"linux", "darwin"} :
        IF ok /\ CanUnmount(run.backend, goos)
        THEN /\ mounted' = SubSeq(mounted, 1, Len(mounted) - 1)
             /\ run' = [run EXCEPT !.pc = "listLabelled", !.unmounts = @ + 1]
        ELSE /\ UNCHANGED mounted
             /\ run' = [run EXCEPT !.pc = "done", !.unmounts = @ + 1,
                                   !.err = "failed to unmount"]
    /\ UNCHANGED <<pvc, pods, forwards, keyFiles, tempKeyFiles, last, runs>>

\* a selector that goes by the pod's volumes instead of its labels
MatchesSelectorByVolume(p, backend) ==
    \E k \in 1..Len(p.volumes) : p.volumes[k] = TargetPVC

\* the label selector of Clean (pvcName=<pvc>,app=volume-exposer) and of
\* cleanNFS (the same plus backend=nfs)
MatchesSelector(p, backend) ==
    /\ p.pvcName = TargetPVC
    /\ p.app = "volume-exposer"
    /\ backend = "nfs" => p.backend = "nfs"

\* Clean / cleanNFS: list by label; a match selects the standalone path
ListLabelled ==
    /\ run.op = "clean" /\ run.pc = "listLabelled"
    /\ \E ok \in BOOLEAN :
        IF ~ok THEN run' = [run EXCEPT !.pc = "done", !.lists = @ + 1,
                                       !.err = "failed to list pods"]
        ELSE LET items == SelectSeq(pods, LAMBDA q : MatchesSelector(q, run.backend))
             IN  IF Len(items) > 0
                 THEN run' = [run EXCEPT !.pc = "killPortForward", !.lists = @ + 1,
                                         !.strategy = "standalone",
                                         !.podName = items[1].name]
                 ELSE run' = [run EXCEPT !.pc = "cleanRWO", !.lists = @ + 1,
                                         !.strategy = "ephemeral"]
    /\ UNCHANGED <<pvc, pods, forwards, mounted, keyFiles, tempKeyFiles, last, runs>>

\* a kill whose failure is ignored
PkillLenient(podName, next) ==
    /\ forwards' = forwards \ { f \in forwards : f.pod = podName }
    /\ run' = [run EXCEPT !.pc = next, !.pkills = @ + 1]

\* pkill -f "kubectl port-forward pod/<podName>": kills every matching
\* child; exits non-zero when nothing matched, which Run() reports as error
Pkill(podName, next) ==
    LET matched == { f \in forwards : f.pod = podName }
    IN  IF matched = {}
        THEN /\ run' = [run EXCEPT !.pc = "done", !.pkills = @ + 1,
                                   !.err = "failed to kill port-forward process"]
             /\ UNCHANGED forwards
        ELSE /\ forwards' = forwards \ matched
             /\ run' = [run EXCEPT !.pc = next, !.pkills = @ + 1]

\* Clean / cleanNFS, standalone path: kill the port-forward
KillPortForward ==
    /\ run.op = "clean" /\ run.pc = "killPortForward"
    /\ Pkill(run.podName, "deletePod")
    /\ UNCHANGED <<pvc, pods, mounted, keyFiles, tempKeyFiles, last, runs>>

\* Clean / cleanNFS, standalone path: delete the pod
DeletePod ==
    /\ run.op = "clean" /\ run.pc = "deletePod"
    /\ \E ok \in BOOLEAN :
        IF ok
        THEN /\ pods' = RemoveNamed(pods, run.podName)
             /\ run' = [run EXCEPT !.pc = "done", !.deletes = @ + 1,
                                   !.deleted = run.podName]
        ELSE /\ UNCHANGED pods
             /\ run' = [run EXCEPT !.pc = "done", !.deletes = @ + 1,
                                   !.err = "failed to delete pod"]
    /\ UNCHANGED <<pvc, forwards, mounted, keyFiles, tempKeyFiles, last, runs>>

\* cleanRWO / cleanNFSRWO: list all pods and find the one using the PVC
CleanRWO ==
    /\ run.op = "clean" /\ run.pc = "cleanRWO"
    /\ \E ok \in BOOLEAN :
        IF ~ok THEN run' = [run EXCEPT !.pc = "done", !.lists = @ + 1,
                                       !.err = "failed to list pods"]
        ELSE LET podName == findPodUsingPVC(pods, TargetPVC)
             IN  IF podName = NoName
                 THEN run' = [run EXCEPT !.pc = "done", !.lists = @ + 1,
                                         !.err = "no pod found using PVC"]
                 ELSE run' = [run EXCEPT !.pc = "killPortForwardRWO", !.lists = @ + 1,
                                         !.podName = podName]
    /\ UNCHANGED <<pvc, pods, forwards, mounted, keyFiles, tempKeyFiles, last, runs>>

\* cleanRWO / cleanNFSRWO: kill the port-forward to the workload pod
KillPortForwardRWO ==
    /\ run.op = "clean" /\ run.pc = "killPortForwardRWO"
    /\ Pkill(run.podName, IF run.backend = "nfs" THEN "killNFSProcessInEphemeralContainer"
                                                 ELSE "killProcessInEphemeralContainer")
    /\ UNCHANGED <<pvc, pods, mounted, keyFiles, tempKeyFiles, last, runs>>

\* kubectl exec <pod> -c <container> -- pkill <process>: succeeds when the
\* container runs and pkill finds the process in it; the server process is
\* the container's main process, so the container terminates
ExecPkill(p, k, process, msg) ==
    \E ok \in BOOLEAN :
        IF ok /\ p.ephs[k].state = "Running" /\ p.ephs[k].server = process
        THEN /\ pods' = ReplacePod(p.name, SetEphState(p, p.ephs[k].name, "Terminated"))
             /\ run' = [run EXCEPT !.pc = "done", !.execIn = p.ephs[k].name]
        ELSE /\ UNCHANGED pods
             /\ run' = [run EXCEPT !.pc = "done", !.execIn = p.ephs[k].name, !.err = msg]

\* killProcessInEphemeralContainer: the container the SSH clean execs into
\* (0: none)
sshKillTarget(p) == IF Len(p.ephs) = 0 THEN 0 ELSE 1

\* killProcessInEphemeralContainer (cleanRWO)
KillProcessInEphemeralContainer ==
    /\ run.op = "clean" /\ run.pc = "killProcessInEphemeralContainer"
    /\ \E getOK \in BOOLEAN :
        IF ~getOK \/ run.podName \notin PodNames
        THEN Fail("failed to get existing pod") /\ UNCHANGED pods
        ELSE LET p == PodNamed(run.podName)
                 k == sshKillTarget(p)
             IN  IF k = 0
                 THEN Fail("no ephemeral containers found in pod") /\ UNCHANGED pods
                 ELSE ExecPkill(p, k, "sshd", "failed to kill process in container")
    /\ UNCHANGED <<pvc, forwards, mounted, keyFiles, tempKeyFiles, last, runs>>

\* killNFSProcessInEphemeralContainer: the loop keeps the last ephemeral
\* container whose name carries the NFS prefix (0: none)
RECURSIVE nfsKillTargetFrom(_, _, _)
nfsKillTargetFrom(ephs, k, found) ==
    IF k > Len(ephs) THEN found
    ELSE nfsKillTargetFrom(ephs, k + 1,
                           IF HasPrefix(ephs[k].name, NFSCleanPrefix) THEN k ELSE found)

nfsKillTarget(p) == nfsKillTargetFrom(p.ephs, 1, 0)

\* killNFSProcessInEphemeralContainer (cleanNFSRWO)
KillNFSProcessInEphemeralContainer ==
    /\ run.op = "clean" /\ run.pc = "killNFSProcessInEphemeralContainer"
    /\ \E getOK \in BOOLEAN :
        IF ~getOK \/ run.podName \notin PodNames
        THEN Fail("failed to get existing pod") /\ UNCHANGED pods
        ELSE LET p == PodNamed(run.podName)
                 k == nfsKillTarget(p)
             IN  IF k = 0
                 THEN Fail("no NFS ephemeral container found in pod") /\ UNCHANGED pods
                 ELSE ExecPkill(p, k, "ganesha", "failed to kill NFS process in container")
    /\ UNCHANGED <<pvc, forwards, mounted, keyFiles, tempKeyFiles, last, runs>>

\* ------------------------------------------------------- end of invocation
\* the command returns; the next invocation may start
Return ==
    /\ run.pc = "done"
    /\ last' = IF run.err # "" THEN NoLast
                ELSE IF run.op = "clean" THEN [NoLast EXCEPT !.op = "clean", !.ok = TRUE]
                ELSE [op |-> "mount", ok |-> TRUE, backend |-> run.backend,
                      strategy |-> run.strategy, podName |-> run.podName,
                      containerName |-> run.containerName, pf |-> run.pf,
                      created |-> run.creates > 0,
                      prePods |-> run.prePods, preMounted |-> run.preMounted]
    /\ run' = IdleRun
    /\ UNCHANGED <<pvc, pods, forwards, mounted, keyFiles, tempKeyFiles, runs>>

Next ==
    \/ StartMount \/ CheckPVCUsage \/ Probe \/ GenerateAndDebugKeys
    \/ SetupPod \/ SetupNFSPod \/ WaitForPodReady
    \/ CreateEphemeralContainer \/ FindRunningNFSEphemeralContainer
    \/ CreateNFSEphemeralContainer \/ WaitForEphemeralContainerReady
    \/ SetupPortForwarding \/ WaitForSSHReady
    \/ SetupNFSPortForwarding \/ WaitForNFSReady
    \/ CreateTemp \/ RegisterTempKeyFile \/ Chmod \/ WriteKey \/ CloseKey
    \/ Sshfs \/ CleanupRemove \/ CleanupUnregister
    \/ MountPVCOverNFS \/ MountReturn
    \/ StartClean \/ Unmount \/ ListLabelled \/ KillPortForward \/ DeletePod
    \/ CleanRWO \/ KillPortForwardRWO
    \/ KillProcessInEphemeralContainer \/ KillNFSProcessInEphemeralContainer
    \/ Return

Spec == Init /\ [][Next]_vars

\* ------------------------------------------------ the probe on its own
\* every PVC state and every list of up to MaxWorkloads workload pods
InitProbe ==
    /\ pvc \in PVCStates
    /\ pods \in InitialPodLists
    /\ forwards = {}
    /\ mounted = <<>>
    /\ keyFiles = {}
    /\ tempKeyFiles = {}
    /\ run = IdleRun
    /\ last = NoLast
    /\ runs = 0

NextProbe == StartMount \/ CheckPVCUsage \/ Probe \/ Return

SpecProbe == InitProbe /\ [][NextProbe]_vars

\* ================================================================== claims
Probed == run.op = "mount" /\ run.strategy # ""

Succeeded(op) == run.op = op /\ run.pc = "done" /\ run.err = ""

UsesPVC(p) == \E k \in 1..Len(p.volumes) : p.volumes[k] = TargetPVC

Users == { i \in 1..Len(pods) : UsesPVC(pods[i]) }

C2_ProbeVerdict ==
    Probed =>
        IF "ReadWriteOnce" \notin pvc.accessModes \/ Users = {}
        THEN run.canBeMounted /\ run.podUsingPVC = NoName
        ELSE /\ ~run.canBeMounted
             /\ run.podUsingPVC # NoName
             /\ \E i \in Users : /\ \A j \in Users : i <= j
                                 /\ run.podUsingPVC = pods[i].name

C2_Witness ==
    /\ Probed /\ ~run.canBeMounted
    /\ Len(pods) = 2 /\ UsesPVC(pods[1]) /\ UsesPVC(pods[2])
    /\ run.podUsingPVC = pods[1].name

\* C3: a successful mount followed by a successful clean of the same
\* backend leaves the cluster as it was before the mount: the pod the mount
\* created is gone, its port-forward child is gone, the mount point holds
\* what it held before, and nothing is left in the cluster that was not
\* there before except terminated exposer ephemeral containers.
IsExposerEph(e) == HasPrefix(e.name, PodPrefix)

WithoutResidue(ps) ==
    [i \in 1..Len(ps) |->
        [ps[i] EXCEPT !.ephs = SelectSeq(@, LAMBDA e :
            ~(IsExposerEph(e) /\ e.state = "Terminated"))]]

CleanAfterMount ==
    /\ Succeeded("clean")
    /\ last.op = "mount" /\ last.ok /\ last.backend = run.backend

C3_MountCleanRoundTrip ==
    CleanAfterMount =>
        /\ last.created => last.podName \notin PodNames
        /\ ~ForwardAlive(last.pf)
        /\ mounted = last.preMounted
        /\ \A i \in 1..Len(pods) :
              \E j \in 1..Len(last.prePods) :
                  WithoutResidue(pods)[i] = WithoutResidue(last.prePods)[j]

\* C4: a mount invocation that started a port-forward child and then
\* fails has killed that child exactly once when it returns, and the child
\* no longer runs; no invocation kills its child twice, and a successful
\* mount leaves its child running, unkilled.
C4_ForwardKilledOnceOnError ==
    run.op = "mount" =>
        /\ run.pfKills <= 1
        /\ run.pfKills = 1 => run.pf # 0
        /\ run.pc = "done" /\ run.pf # 0 /\ run.err # "" =>
              run.pfKills = 1 /\ ~ForwardAlive(run.pf)
        /\ run.pc = "done" /\ run.pf # 0 /\ run.err = "" =>
              run.pfKills = 0 /\ ForwardAlive(run.pf)

C4_Witness ==
    /\ run.op = "mount" /\ run.pc = "done" /\ run.pf # 0
    /\ run.err = "failed to mount PVC using SSHFS"
    /\ run.pfKills = 1 /\ ~ForwardAlive(run.pf)

\* C5 as stated: a temp key file that exists has mode 0600 and its path is
\* in the registry, from its creation until its removal.
C5_KeyFileRegisteredFromCreation ==
    \A f \in keyFiles : f.mode = KeyFileMode /\ f.path \in tempKeyFiles

\* C5 as amended: a temp key file that exists has mode 0600; its path is in
\* the registry from the registerTempKeyFile statement that follows its
\* creation until its removal, and while it is not yet registered it is
\* empty; the key bytes are in it only after the chmod to 0600.
C5_KeyFileRegisteredOnceNamed ==
    \A f \in keyFiles :
        /\ f.mode = KeyFileMode
        /\ f.path \in tempKeyFiles
             \/ (run.pc = "registerTempKeyFile" /\ f.path = run.keyPath /\ ~f.hasKey)
        /\ f.hasKey => run.pc \in {"close", "sshfs", "cleanupRemove"}

C5_Witness ==
    /\ run.pc = "sshfs"
    /\ \E f \in keyFiles :
          f.path = run.keyPath /\ f.hasKey /\ f.mode = KeyFileMode /\ f.path \in tempKeyFiles

\* C6: when mountPVCOverSSH has returned, on success or on any failure,
\* the temp key file of the invocation is not on disk and its path is not in
\* the registry.
C6_KeyFileGoneOnReturn ==
    run.op = "mount" /\ run.backend = "ssh" /\ run.pc \in {"mountReturn", "done"} =>
        /\ \A f \in keyFiles : f.path # run.keyPath
        /\ run.keyPath \notin tempKeyFiles
        /\ keyFiles = {} /\ tempKeyFiles = {}

C6_Witness ==
    /\ run.op = "mount" /\ run.pc = "mountReturn" /\ run.keyPath # 0
    /\ run.pending = "failed to write SSH private key to temporary file"
    /\ keyFiles = {} /\ tempKeyFiles = {}

\* C7: between invocations a PVC has at most one exposer: at most one pod
\* labelled app=volume-exposer,pvcName=<pvc> or one running exposer
\* ephemeral container.
ExposerPods ==
    { pods[i].name : i \in { j \in 1..Len(pods) :
        pods[j].app = "volume-exposer" /\ pods[j].pvcName = TargetPVC } }

RunningExposerEphs(p) ==
    { p.ephs[k].name : k \in { m \in 1..Len(p.ephs) :
        IsExposerEph(p.ephs[m]) /\ p.ephs[m].state = "Running" } }

ExposerContainers == UNION { RunningExposerEphs(pods[i]) : i \in 1..Len(pods) }

C7_AtMostOneExposer ==
    run.pc = "idle" => Cardinality(ExposerPods) + Cardinality(ExposerContainers) <= 1

\* C8: a clean whose unmount succeeded does not fail because pkill found
\* no port-forward process to kill (the only way the pkill step fails here).
C8_PkillNonMatchAccepted ==
    run.op = "clean" /\ run.pc = "done" /\ run.unmounts = 1 /\ run.pkills = 1 =>
        run.err # "failed to kill port-forward process"

\* a PVC an earlier clean fully cleaned: that clean succeeded and nothing is
\* mounted, no exposer and no port-forward child is left
SecondClean ==
    /\ run.op = "clean" /\ run.pc = "done" /\ run.unmounts = 1
    /\ last.op = "clean" /\ last.ok
    /\ run.preMounted = <<>> /\ forwards = {}
    /\ ExposerPods = {} /\ ExposerContainers = {}

\* C9 as stated: the second clean of a fully cleaned PVC fails with
\* 'no pod found using PVC <pvc>'.
C9_SecondCleanNoPodFound ==
    SecondClean => run.err = "no pod found using PVC"

\* C9 as amended: the second clean of a fully cleaned PVC ends at its first
\* step, with the unmount error, before any pod lookup.
C9_SecondCleanUnmountError ==
    SecondClean => run.err = "failed to unmount" /\ run.lists = 0 /\ run.pkills = 0

C9_Witness ==
    SecondClean /\ run.err = "failed to unmount" /\ run.prePods = <<>>

\* C10: the nfs clean that follows a successful S4 mount into a workload
\* pod, once it has unmounted, killed the port-forward and read the pod,
\* kills ganesha.nfsd in the container that mount added and succeeds.
C10_NFSCleanFindsMountedContainer ==
    /\ run.op = "clean" /\ run.backend = "nfs" /\ run.pc = "done"
    /\ last.op = "mount" /\ last.ok /\ last.strategy = "S4"
    /\ last.podName \notin ExposerPods
    /\ run.pkills = 1
    /\ run.err \notin {"failed to kill port-forward process", "failed to get existing pod"}
    => run.execIn = last.containerName /\ run.err = ""

\* C11: a mount gets past the PVC check only when the PVC was fetched and
\* its phase is Bound; a mount that fails at that check (PVC not found, API
\* error, phase not Bound) has created no pod, patched no pod, started no
\* port-forward and run no local mount command, and pods and mount point
\* are as they were.
PVCErrors == {"failed to get PVC", "PVC is not bound"}

ValidationErrors ==
    {"invalid namespace", "invalid pvc-name", "local mount point does not exist"}

C11_UnusablePVCFailsBeforeProvisioning ==
    run.op = "mount" =>
        /\ run.pc # "checkPVCUsage" /\ run.err \notin ValidationErrors \cup PVCErrors =>
              pvc.exists /\ pvc.phase = "Bound"
        /\ run.pc = "done" /\ run.err = "" => pvc.exists /\ pvc.phase = "Bound"
        /\ run.err \in PVCErrors =>
              /\ run.pc = "done"
              /\ run.creates = 0 /\ run.patches = 0 /\ run.pf = 0 /\ run.localRuns = 0
              /\ pods = run.prePods /\ mounted = run.preMounted

C11_Witness ==
    /\ run.op = "mount" /\ run.pc = "done" /\ run.err = "PVC is not bound"
    /\ pvc.phase = "Pending" /\ run.creates = 0 /\ run.pf = 0

\* ---------------------------------------------------- functions on their own
\* Names are sequences of characters.  The characters tried stand for the
\* classes the validation tells apart: lower-case letter, digit, '-', '.',
\* upper-case letter, underscore.
NameChars == {"a", "7", "-", ".", "A", "_"}

LowerAlnum == {"a", "7"}

Repeat(c, n) == [i \in 1..n |-> c]

ShortNames == SeqsUpTo(NameChars, MaxNameLen)

\* names just below, at and just above the length limit
LongNames ==
    { <<c>> \o Repeat("a", n) \o <<d>> :
        c \in NameChars, d \in NameChars,
        n \in { MaxK8sNameLen - 3, MaxK8sNameLen - 2, MaxK8sNameLen - 1 } }

\* the rest of the regex after the first character, `[-a-z0-9.]*[a-z0-9]$`:
\* some position k ends the starred class, holds the final alphanumeric and
\* is the end of the text
matchRest(name) ==
    \E k \in 2..Len(name) :
        /\ \A j \in 2..(k - 1) : name[j] \in LowerAlnum \cup {"-", "."}
        /\ name[k] \in LowerAlnum
        /\ k = Len(name)

\* the regex with its end anchor forgotten
kubernetesNameRegexUnanchored(name) ==
    /\ Len(name) >= 1
    /\ name[1] \in LowerAlnum
    /\ Len(name) = 1 \/ \E k \in 2..Len(name) :
          /\ \A j \in 2..(k - 1) : name[j] \in LowerAlnum \cup {"-", "."}
          /\ name[k] \in LowerAlnum

\* kubernetesNameRegex.MatchString: ^[a-z0-9]([-a-z0-9.]*[a-z0-9])?$
kubernetesNameRegex(name) ==
    /\ Len(name) >= 1
    /\ name[1] \in LowerAlnum
    /\ Len(name) = 1 \/ matchRest(name)

\* ValidateKubernetesName: "" for nil, else the error
ValidateKubernetesName(name, fieldName) ==
    IF name = <<>> THEN "cannot be empty"
    ELSE IF Len(name) > MaxK8sNameLen THEN "must be no more than 253 characters"
    ELSE IF ~kubernetesNameRegex(name) THEN "must consist of lower case alphanumeric characters"
    ELSE ""

\* a port computed from a range one too wide
generatePodNameAndPortWide(suffix, rnd, ok) ==
    [podName |-> Name(PodPrefix, suffix),
     port |-> IF ok THEN rnd + MinEphemeralPort + 1 ELSE MinEphemeralPort]

\* generatePodNameAndPort: the pod name from randSeq(5), the port from
\* crand.Int, or MinEphemeralPort when the random source fails
generatePodNameAndPort(suffix, rnd, ok) ==
    [podName |-> Name(PodPrefix, suffix),
     port |-> IF ok THEN rnd + MinEphemeralPort ELSE MinEphemeralPort]

\* crand.Int(crand.Reader, big.NewInt(EphemeralPortRange)): a value in
\* [0, EphemeralPortRange), or an error
RandomPorts == 0..(EphemeralPortRange - 1)

Call(fn, arg) == [op |-> "call", fn |-> fn, arg |-> arg, pc |-> "call", result |-> ""]

Calls == { Call("ValidateKubernetesName", n) : n \in ShortNames \cup LongNames }

\* the security contexts of the workload pods tried
PodSecurity ==
    { [containers |-> cs, securityContext |-> sc] :
        cs \in SeqsUpTo(SecurityContexts, MaxContainers), sc \in SecurityContexts }

UIDCalls == { Call("createNFSEphemeralContainer", p) : p \in PodSecurity }

\* the ephemeral containers the waiter is tried on: the awaited one
\* and another exposer, each in every state a status entry can show
AwaitedName == Name(SSHEphemeralPrefix, 2)
StatusEntries ==
    { Eph(n, st, "sshd", 0) :
        n \in { AwaitedName, Name(SSHEphemeralPrefix, 1) },
        st \in { "Absent", "Waiting", "Running", "Terminated", "Unset" } }

StatusCalls ==
    { Call("checkEphemeralContainerStatus", [ephs |-> es, containerName |-> AwaitedName]) :
        es \in SeqsUpTo(StatusEntries, MaxStatuses) }

\* ------------------------------------------------- the readiness probes
\* What a probe meets on 127.0.0.1:<port>: whether the dial succeeds,
\* whether SetReadDeadline succeeds, the bytes the peer has sent by the time
\* the read returns, and whether the peer has closed the connection.
ProbeBytes == {"S", "H", "-"}
NUL == "NUL"

Conn(dial, deadline, sent, closed) ==
    [dial |-> dial, deadline |-> deadline, sent |-> sent, closed |-> closed]

Conns ==
    { Conn(d, dl, s, c) :
        d \in BOOLEAN, dl \in BOOLEAN, s \in SeqsUpTo(ProbeBytes, MaxBanner),
        c \in BOOLEAN }

\* conn.Read(buf) under the read deadline: the bytes that fit the buffer,
\* or io.EOF from a closed connection, or the timeout of the deadline
Read(conn, size) ==
    LET n == IF Len(conn.sent) < size THEN Len(conn.sent) ELSE size
    IN  [n |-> n,
         buf |-> [i \in 1..size |-> IF i <= n THEN conn.sent[i] ELSE NUL],
         err |-> IF n > 0 THEN "nil"
                 ELSE IF conn.closed THEN "EOF" ELSE "timeout"]

\* a probe that accepts any first bytes
isSSHReadyAnyBytes(conn) ==
    IF ~conn.dial THEN FALSE
    ELSE IF ~conn.deadline THEN FALSE
    ELSE LET r == Read(conn, SSHProbeBufLen)
         IN  r.err = "nil" /\ r.n >= SSHBannerLen

\* isSSHReady: the first bytes read from 127.0.0.1:<port> are "SSH"
isSSHReady(conn) ==
    IF ~conn.dial THEN FALSE
    ELSE IF ~conn.deadline THEN FALSE
    ELSE LET r == Read(conn, SSHProbeBufLen)
         IN  /\ r.err = "nil"
             /\ r.n >= SSHBannerLen
             /\ SubSeq(r.buf, 1, SSHBannerLen) = <<"S", "S", "H">>

\* the probe that only connects
isNFSReadyConnectOnly(conn) == conn.dial

\* isNFSReady: the connection to 127.0.0.1:<port> is not closed: the read
\* times out or returns bytes
isNFSReady(conn) ==
    IF ~conn.dial THEN FALSE
    ELSE IF ~conn.deadline THEN FALSE
    ELSE LET r == Read(conn, NFSProbeBufLen)
         IN  IF r.err # "nil" THEN r.err = "timeout" ELSE TRUE

SSHProbeCalls == { Call("isSSHReady", c) : c \in Conns }
NFSProbeCalls == { Call("isNFSReady", c) : c \in Conns }

PortCalls ==
    { Call("generatePodNameAndPort", [rnd |-> r, ok |-> ok]) :
        r \in RandomPorts, ok \in BOOLEAN }

InitPure ==
    /\ pvc = BoundPVC({})
    /\ pods = <<>>
    /\ forwards = {}
    /\ mounted = <<>>
    /\ keyFiles = {}
    /\ tempKeyFiles = {}
    /\ \/ run \in Calls
       \/ run \in PortCalls
       \/ run \in UIDCalls
       \/ run \in StatusCalls
       \/ run \in SSHProbeCalls
       \/ run \in NFSProbeCalls
    /\ last = NoLast
    /\ runs = 0

Returned(fn, result) ==
    /\ run.op = "call" /\ run.fn = fn /\ run.pc = "call"
    /\ run' = [run EXCEPT !.pc = "done", !.result = result]
    /\ UNCHANGED <<pvc, pods, forwards, mounted, keyFiles, tempKeyFiles, last, runs>>

ValidateName == Returned("ValidateKubernetesName", ValidateKubernetesName(run.arg, "pvc-name"))

GeneratePodNameAndPort ==
    Returned("generatePodNameAndPort",
             generatePodNameAndPort(1, run.arg.rnd, run.arg.ok))

\* createNFSEphemeralContainer: the RunAsUser of the container it builds
\* for the pod
RunAsUserOfNFSEphemeral ==
    Returned("createNFSEphemeralContainer",
             buildNFSEphemeralContainerSpec(NFSEphemeralName(1), detectPodUID(run.arg)).runAsUser)

CheckEphemeralContainerStatus ==
    Returned("checkEphemeralContainerStatus",
             checkEphemeralContainerStatus(run.arg, run.arg.containerName))

IsSSHReady == Returned("isSSHReady", isSSHReady(run.arg))

IsNFSReady == Returned("isNFSReady", isNFSReady(run.arg))

NextPure ==
    \/ ValidateName \/ GeneratePodNameAndPort \/ RunAsUserOfNFSEphemeral
    \/ CheckEphemeralContainerStatus \/ IsSSHReady \/ IsNFSReady

SpecPure == InitPure /\ [][NextPure]_vars

\* C12: ValidateKubernetesName returns an error exactly for the names that
\* are empty, longer than 253 characters, contain a character other than a
\* lower-case alphanumeric, '-' or '.', or start or end with '-' or '.'.
Done(fn) == run.op = "call" /\ run.fn = fn /\ run.pc = "done"

C12_NameValidation ==
    Done("ValidateKubernetesName") =>
        LET name == run.arg
            n == Len(name)
        IN  run.result # "" <=>
                \/ n = 0
                \/ n > 253
                \/ \E i \in 1..n : name[i] \notin {"a", "7", "-", "."}
                \/ name[1] \in {"-", "."}
                \/ name[n] \in {"-", "."}

C12_Witness ==
    /\ Done("ValidateKubernetesName")
    /\ Len(run.arg) = 253 /\ run.result = ""

\* C13: a standalone mount (S1, S3) issues no pod Delete, and from the
\* creation of its exposer pod on, through every failure of a later step,
\* that pod exists: it is still there when mount returns the error.
C13_NoPodDeleteOnError ==
    run.op = "mount" /\ run.strategy \in {"S1", "S3"} =>
        /\ run.deletes = 0
        /\ run.podName # NoName =>
              /\ run.podName \in PodNames
              /\ PodNamed(run.podName).app = "volume-exposer"
              /\ PodNamed(run.podName).pvcName = TargetPVC

C13_Witness ==
    /\ run.op = "mount" /\ run.strategy = "S3" /\ run.pc = "done"
    /\ run.err = "failed to mount PVC using NFS"
    /\ run.podName \in PodNames /\ run.creates = 1

\* ------------------------------------------------------ the signal handler
\* init() starts a goroutine that waits for SIGINT / SIGTERM, runs
\* cleanupTempKeyFiles and exits with code 1; the invocation keeps running
\* beside it until the exit.

\* the signal is delivered to the channel (sigFiles: the registry then)
Signal ==
    /\ run.op = "mount" /\ run.pc # "done" /\ run.sig = "none"
    /\ run' = [run EXCEPT !.sig = "caught", !.sigFiles = tempKeyFiles]
    /\ UNCHANGED <<pvc, pods, forwards, mounted, keyFiles, tempKeyFiles, last, runs>>

\* a handler that exits without touching the files
cleanupTempKeyFilesSkipped == keyFiles

\* cleanupTempKeyFiles: under the registry's mutex, os.Remove of every
\* registered path; the registry itself is left as it is
cleanupTempKeyFiles == { f \in keyFiles : f.path \notin tempKeyFiles }

\* the handler goroutine: cleanupTempKeyFiles()
HandlerCleanup ==
    /\ run.op = "mount" /\ run.sig = "caught"
    /\ keyFiles' = cleanupTempKeyFiles
    /\ run' = [run EXCEPT !.sig = "cleaned"]
    /\ UNCHANGED <<pvc, pods, forwards, mounted, tempKeyFiles, last, runs>>

\* the handler goroutine: os.Exit(1).  The process and its registry are
\* gone; its children (the port-forward) are not waited for or killed.
HandlerExit ==
    /\ run.op = "mount" /\ run.sig = "cleaned"
    /\ tempKeyFiles' = {}
    /\ run' = [run EXCEPT !.sig = "exited", !.pc = "done", !.err = "exit status 1"]
    /\ UNCHANGED <<pvc, pods, forwards, mounted, keyFiles, last, runs>>

ReturnUnlessExited == run.sig # "exited" /\ Return

NextSignal ==
    \/ StartMount \/ CheckPVCUsage \/ Probe \/ GenerateAndDebugKeys
    \/ SetupPod \/ SetupNFSPod \/ WaitForPodReady
    \/ CreateEphemeralContainer \/ FindRunningNFSEphemeralContainer
    \/ CreateNFSEphemeralContainer \/ WaitForEphemeralContainerReady
    \/ SetupPortForwarding \/ WaitForSSHReady
    \/ SetupNFSPortForwarding \/ WaitForNFSReady
    \/ CreateTemp \/ RegisterTempKeyFile \/ Chmod \/ WriteKey \/ CloseKey
    \/ Sshfs \/ CleanupRemove \/ CleanupUnregister
    \/ MountPVCOverNFS \/ MountReturn
    \/ Signal \/ HandlerCleanup \/ HandlerExit
    \/ ReturnUnlessExited

\* the behaviours of SpecSignal end with the exit of the interrupted process
SpecSignal == Init /\ [][NextSignal]_vars

\* the handler goroutine takes a step
HandlerStep == run'.sig \in {"cleaned", "exited"} /\ run'.sig # run.sig

\* C14: when SIGINT / SIGTERM arrives during a mount, the handler creates,
\* patches and deletes no Kubernetes object, and at the exit with code 1 no
\* temp key file that was registered when the signal arrived is left on disk.
C14_SignalRemovesRegisteredKeyFiles ==
    [][HandlerStep =>
          /\ pods' = pods /\ pvc' = pvc
          /\ run'.creates = run.creates /\ run'.patches = run.patches
          /\ run'.deletes = run.deletes
          /\ run'.sig = "exited" =>
                /\ run'.err = "exit status 1"
                /\ \A path \in run'.sigFiles : \A f \in keyFiles' : f.path # path]_vars

C14_Witness ==
    /\ run.op = "mount" /\ run.sig = "exited" /\ run.pc = "done"
    /\ run.sigFiles # {}
    /\ \A f \in keyFiles : f.path \notin run.sigFiles

\* the local mount command of the invocation failed
LocalMountFailed ==
    run.err \in {"failed to mount PVC using SSHFS", "failed to mount PVC using NFS"}

\* C15 as stated: the port-forward child is started only after the exposer
\* pod or ephemeral container was observed ready, and it no longer runs when
\* the mount invocation has finished, whatever the outcome.
C15_ForwardKilledBeforeExit ==
    run.op = "mount" /\ run.pf # 0 =>
        /\ run.observed
        /\ run.pc = "done" => ~ForwardAlive(run.pf)

\* C15 amended: the port-forward child is started only after the exposer pod
\* or ephemeral container was observed ready; when the readiness probe or
\* the local mount fails it is killed before Mount returns the error; after
\* a successful mount it is left running, since the mount goes through it.
C15_ForwardAfterReadyKilledOnFailure ==
    run.op = "mount" /\ run.pf # 0 =>
        /\ run.observed
        /\ run.pc = "done" /\ run.err # "" => ~ForwardAlive(run.pf)
        /\ run.pc = "done" /\ run.err = "" => ForwardAlive(run.pf) /\ mounted # <<>>

C15_Witness ==
    /\ run.op = "mount" /\ run.pc = "done" /\ run.pf # 0 /\ run.observed
    /\ LocalMountFailed /\ ~ForwardAlive(run.pf)

\* ------------------------------------------- two mounts at the same time
\* Two mount invocations of different PVCs, both volumes unmounted, run on
\* one workstation against one namespace; their steps interleave.  In this
\* specification run is the pair of the two invocations.
MaxDraw   == 1     \* values the random source of crand.Int is followed on
MaxSuffix == 2     \* values randSeq is followed on

Draws    == 0..MaxDraw
Suffixes == 1..MaxSuffix
Invs     == {1, 2}

Inv(pvcName, backend) ==
    [pvc |-> pvcName, backend |-> backend, pc |-> "setupPod", podName |-> NoName,
     port |-> 0, pf |-> FALSE, tunnel |-> NoName, keyPath |-> 0, err |-> ""]

InitConcurrent ==
    /\ pvc = BoundPVC({"ReadWriteMany"})
    /\ pods = <<>> /\ forwards = {} /\ mounted = <<>>
    /\ keyFiles = {} /\ tempKeyFiles = {}
    /\ run \in { <<Inv(TargetPVC, b1), Inv(OtherPVC, b2)>> : b1, b2 \in {"ssh", "nfs"} }
    /\ last = NoLast /\ runs = 0

Step(i, next)    == run' = [run EXCEPT ![i].pc = next]
Failed(i, msg)   == run' = [run EXCEPT ![i].pc = "done", ![i].err = msg]

\* the live port-forward children listening on a local port
ListeningOn(port) == { f \in forwards : f.port = port }

\* the server a local connection to the port reaches: the one behind the
\* child that holds the port, whoever started it
Reached(port, remote) ==
    LET L == { f \in ListeningOn(port) : f.pod \in PodNames }
    IN  IF L = {} THEN [kind |-> "none", name |-> NoName, key |-> 0, pod |-> NoName]
        ELSE LET f == CHOOSE g \in L : TRUE
                 srv == IF f.remote = DefaultSSHPort THEN "sshd" ELSE "ganesha"
                 l == Listener(PodNamed(f.pod), srv)
             IN  [kind |-> IF l.kind = "none" THEN "none" ELSE srv,
                  name |-> l.name, key |-> l.key, pod |-> f.pod]

\* setupPod / setupNFSPod: generatePodNameAndPort, then Pods.Create, which
\* rejects a name that is taken
ConcurrentSetupPod(i) ==
    /\ run[i].pc = "setupPod"
    /\ \E suffix \in Suffixes, rnd \in Draws, ok \in BOOLEAN :
        LET g == generatePodNameAndPort(suffix, rnd, ok)
            spec == IF run[i].backend = "nfs"
                    THEN createNFSPodSpec(g.podName, g.port, run[i].pvc)
                    ELSE createPodSpec(g.podName, g.port, run[i].pvc, i)
        IN  IF g.podName \in PodNames
            THEN Failed(i, "failed to create pod") /\ UNCHANGED pods
            ELSE /\ pods' = Append(pods, spec)
                 /\ run' = [run EXCEPT ![i].pc = "waitForPodReady",
                                       ![i].podName = g.podName, ![i].port = g.port]
    /\ UNCHANGED <<pvc, forwards, mounted, keyFiles, tempKeyFiles, last, runs>>

\* waitForPodReady
ConcurrentWaitForPodReady(i) ==
    /\ run[i].pc = "waitForPodReady"
    /\ \E ready \in BOOLEAN :
        IF ready
        THEN /\ pods' = ReplacePod(run[i].podName,
                                   [PodNamed(run[i].podName) EXCEPT !.ready = TRUE])
             /\ Step(i, "setupPortForwarding")
        ELSE Failed(i, "timeout waiting for pod") /\ UNCHANGED pods
    /\ UNCHANGED <<pvc, forwards, mounted, keyFiles, tempKeyFiles, last, runs>>

\* setupPortForwarding / setupNFSPortForwarding: cmd.Start.  The started
\* kubectl exits on its own when the local port is already bound.
ConcurrentSetupPortForwarding(i) ==
    /\ run[i].pc = "setupPortForwarding"
    /\ forwards' =
          IF ListeningOn(run[i].port) # {} THEN forwards
          ELSE forwards \cup { Forward(i, run[i].podName, run[i].port,
                                       IF run[i].backend = "nfs" THEN DefaultNFSPort
                                                                 ELSE DefaultSSHPort) }
    /\ run' = [run EXCEPT ![i].pc = "waitForReady", ![i].pf = TRUE]
    /\ UNCHANGED <<pvc, pods, mounted, keyFiles, tempKeyFiles, last, runs>>

\* DialContext("tcp", "127.0.0.1:<port>"): refused when no child listens;
\* otherwise sshd sends its banner, ganesha waits for the client, and a
\* child whose pod serves nothing closes the connection
Dial(port) ==
    LET r == Reached(port, 0)
    IN  Conn(ListeningOn(port) # {}, TRUE,
             IF r.kind = "sshd" THEN <<"S", "S", "H", "-">> ELSE <<>>,
             r.kind = "none")

\* waitForSSHReady / waitForNFSReady and the error path of the caller
ConcurrentWaitForReady(i) ==
    /\ run[i].pc = "waitForReady"
    /\ \E inTime \in BOOLEAN :
        IF inTime /\ (IF run[i].backend = "nfs" THEN isNFSReady(Dial(run[i].port))
                                                ELSE isSSHReady(Dial(run[i].port)))
        THEN /\ run' = [run EXCEPT ![i].tunnel = Reached(run[i].port, 0).pod,
                                   ![i].pc = IF run[i].backend = "nfs" THEN "mount"
                                                                      ELSE "createTemp"]
             /\ UNCHANGED forwards
        ELSE /\ forwards' = cleanupPortForward(i)
             /\ Failed(i, "failed to establish connection")
    /\ UNCHANGED <<pvc, pods, mounted, keyFiles, tempKeyFiles, last, runs>>

\* createTempSSHKeyFile: os.CreateTemp opens with O_EXCL, so the path is
\* one no file has
ConcurrentCreateTempSSHKeyFile(i) ==
    /\ run[i].pc = "createTemp"
    /\ \E path \in Invs :
        /\ ~FileExists(path)
        /\ keyFiles' = keyFiles \cup { KeyFile(path, KeyFileMode, TRUE) }
        /\ run' = [run EXCEPT ![i].pc = "mount", ![i].keyPath = path]
    /\ UNCHANGED <<pvc, pods, forwards, mounted, tempKeyFiles, last, runs>>

\* mountPVCOverSSH / mountPVCOverNFS against 127.0.0.1:<port>, and the
\* error path of setupPortForwardAndMount / setupNFSPortForwardAndMount
ConcurrentMount(i) ==
    /\ run[i].pc = "mount"
    /\ keyFiles' = RemoveFile(run[i].keyPath)
    /\ \E ok \in BOOLEAN :
        LET r == Reached(run[i].port, 0)
            served == IF run[i].backend = "nfs" THEN r.kind = "ganesha"
                      ELSE r.kind = "sshd" /\ r.key = i
        IN  IF ok /\ served
            THEN /\ mounted' = Append(mounted, [by |-> i, pvc |-> PodNamed(r.pod).pvcName])
                 /\ Step(i, "done")
                 /\ UNCHANGED forwards
            ELSE /\ forwards' = cleanupPortForward(i)
                 /\ Failed(i, "failed to mount PVC")
                 /\ UNCHANGED mounted
    /\ UNCHANGED <<pvc, pods, tempKeyFiles, last, runs>>

NextConcurrent ==
    \E i \in Invs :
        \/ ConcurrentSetupPod(i)
        \/ ConcurrentWaitForPodReady(i)
        \/ ConcurrentSetupPortForwarding(i)
        \/ ConcurrentWaitForReady(i)
        \/ ConcurrentCreateTempSSHKeyFile(i)
        \/ ConcurrentMount(i)

SpecConcurrent == InitConcurrent /\ [][NextConcurrent]_vars

\* C16: two concurrent mounts of different PVCs never share a pod name, a
\* local port or a temp key file; the tunnel each one probes ready is the
\* one to its own exposer, and what each one mounts is its own PVC.
C16_ConcurrentMountsIsolated ==
    /\ run[1].podName # NoName => run[1].podName # run[2].podName
    /\ run[1].port # 0 => run[1].port # run[2].port
    /\ run[1].keyPath # 0 => run[1].keyPath # run[2].keyPath
    /\ \A i \in Invs : run[i].tunnel # NoName => run[i].tunnel = run[i].podName
    /\ \A k \in 1..Len(mounted) : mounted[k].pvc = run[mounted[k].by].pvc

\* the values of an environment
EnvValues(env) == { env[k].value : k \in 1..Len(env) }

\* the value an environment gives a name (Text when it has no such name)
EnvOf(env, name) ==
    LET S == { k \in 1..Len(env) : env[k].name = name }
    IN  IF S = {} THEN Text ELSE env[CHOOSE k \in S : TRUE].value

\* every environment the cluster was sent: of the pods and of their
\* ephemeral containers
Environments ==
    { pods[i].env : i \in 1..Len(pods) }
    \cup UNION { { pods[i].ephs[k].env : k \in 1..Len(pods[i].ephs) } : i \in 1..Len(pods) }

\* C17: no pod spec and no ephemeral-container patch sent to the cluster
\* carries a private key; an sshd exposer is given the public key of the
\* invocation that made it, in SSH_PUBLIC_KEY, and the private key is only
\* in the temp key file of the running invocation.
C17_PrivateKeyStaysLocal ==
    /\ \A env \in Environments :
          /\ \A v \in EnvValues(env) : v.kind # "private"
          /\ \A k \in 1..Len(env) :
                env[k].value.kind = "public" => env[k].name = "SSH_PUBLIC_KEY"
    /\ \A i \in 1..Len(pods) :
          /\ pods[i].key # 0 =>
                EnvOf(pods[i].env, "SSH_PUBLIC_KEY") = PublicKey(pods[i].key)
          /\ \A k \in 1..Len(pods[i].ephs) :
                pods[i].ephs[k].key # 0 =>
                    EnvOf(pods[i].ephs[k].env, "SSH_PUBLIC_KEY") = PublicKey(pods[i].ephs[k].key)
    /\ \A f \in keyFiles : f.hasKey => run.op = "mount" /\ f.path = run.keyPath

C17_Witness ==
    /\ run.op = "mount" /\ run.strategy = "S2" /\ run.pc = "sshfs"
    /\ \E f \in keyFiles : f.hasKey
    /\ \E i \in 1..Len(pods) : \E k \in 1..Len(pods[i].ephs) :
          EnvOf(pods[i].ephs[k].env, "SSH_PUBLIC_KEY") = PublicKey(runs)

\* C18: every exposer name that mount generates has the documented prefix
\* before its random suffix: volume-exposer- for a standalone pod,
\* volume-exposer-ephemeral- for an SSH ephemeral container and
\* nfs-ganesha-ephemeral- for an NFS ephemeral container.
C18_ExposerNameShapes ==
    \A i \in 1..Len(pods) :
        /\ pods[i].app = "volume-exposer" => pods[i].name.prefix = PodPrefix
        /\ \A k \in 1..Len(pods[i].ephs) :
              /\ pods[i].ephs[k].server = "sshd" =>
                    pods[i].ephs[k].name.prefix = SSHEphemeralPrefix
              /\ pods[i].ephs[k].server = "ganesha" =>
                    pods[i].ephs[k].name.prefix = NFSCleanPrefix

\* C19: the local port generatePodNameAndPort returns is within
\* 1024..65535, for every value of the random source and when it fails.
C19_PortWithinRange ==
    run.op = "call" /\ run.fn = "generatePodNameAndPort" /\ run.pc = "done" =>
        /\ run.result.port >= 1024 /\ run.result.port <= 65535
        /\ ~run.arg.ok => run.result.port = 1024

C19_Witness ==
    /\ run.op = "call" /\ run.fn = "generatePodNameAndPort" /\ run.pc = "done"
    /\ run.arg.ok /\ run.arg.rnd = EphemeralPortRange - 1
    /\ run.result.port = 65535

CreatedPod == PodNamed(run.podName)

\* C21: a standalone pod created by mount carries app=volume-exposer,
\* pvcName=<the PVC> and portNumber=<decimal of the local port its
\* port-forward listens on>; backend=nfs is on it exactly when the backend
\* is NFS; the selector of clean for that PVC and backend matches it.
C21_StandalonePodLabels ==
    run.op = "mount" /\ run.creates = 1 /\ run.podName \in PodNames =>
        /\ CreatedPod.app = "volume-exposer"
        /\ CreatedPod.pvcName = TargetPVC
        /\ CreatedPod.portNumber = Itoa(run.port)
        /\ \A f \in forwards : f.id = run.pf => CreatedPod.portNumber = Itoa(f.port)
        /\ CreatedPod.backend = "nfs" <=> run.backend = "nfs"
        /\ CreatedPod.backend \in {"", "nfs"}
        /\ MatchesSelector(CreatedPod, run.backend)

C21_Witness ==
    /\ run.op = "mount" /\ run.strategy = "S3" /\ run.creates = 1
    /\ run.podName \in PodNames /\ ForwardAlive(run.pf)
    /\ CreatedPod.backend = "nfs" /\ CreatedPod.portNumber = <<1, 0, 2, 5>>

\* the port-forward child this invocation started, while it runs
OwnForwards == { f \in forwards : f.id = run.pf }

\* C22: in the standalone SSH strategy each step is taken only after the
\* previous one succeeded: key pair, pod created, pod observed Ready,
\* port-forward to the pod's port 2137, SSH probe, sshfs with the key file;
\* a step that fails ends the invocation with the later steps not taken.
C22_S1StepOrder ==
    run.op = "mount" /\ run.strategy = "S1" =>
        /\ run.creates <= 1 /\ run.patches = 0
        /\ run.creates = 1 => run.keys
        /\ run.observed => run.creates = 1 /\ run.podName # NoName
        /\ run.pf # 0 => run.observed
        /\ \A f \in OwnForwards :
              /\ f.pod = run.podName /\ f.remote = 2137 /\ f.port = run.port
              /\ run.podName \in PodNames => PodNamed(run.podName).ready
        /\ run.probed => run.pf # 0
        /\ run.keyPath # 0 => run.probed
        /\ run.localRuns >= 1 => run.probed /\ run.keyPath # 0 /\ run.localRuns = 1
        /\ run.pc = "sshfs" =>
              \E f \in keyFiles : f.path = run.keyPath /\ f.hasKey /\ f.mode = KeyFileMode
        /\ run.pc = "done" /\ run.err = "" => run.localRuns = 1 /\ mounted # <<>>

C22_Witness ==
    /\ run.op = "mount" /\ run.strategy = "S1" /\ run.pc = "done" /\ run.err = ""
    /\ run.keys /\ run.creates = 1 /\ run.observed /\ run.probed /\ run.localRuns = 1
    /\ OwnForwards # {}

\* the ephemeral containers of pod p that carry the name n
EphsNamed(p, n) == { k \in 1..Len(p.ephs) : p.ephs[k].name = n }

\* C23: in the ephemeral SSH strategy mount creates no pod; it adds one
\* ephemeral container named volume-exposer-ephemeral-<suffix> to the
\* workload pod that uses the PVC, starts the port-forward only after that
\* container was seen Running, with the workload pod and remote port 2137
\* as target, and runs the SSH probe and sshfs after that.
C23_S2StepOrder ==
    run.op = "mount" /\ run.strategy = "S2" =>
        /\ run.creates = 0 /\ run.patches <= 1
        /\ run.patches = 1 => run.keys /\ run.patchTarget = run.podUsingPVC
        /\ run.containerName # NoName =>
              /\ run.patches = 1
              /\ run.containerName.prefix = SSHEphemeralPrefix
              /\ run.podName = run.podUsingPVC
              /\ volumeIndex(PodNamed(run.podUsingPVC).volumes, TargetPVC, 1) # 0
              /\ Cardinality(EphsNamed(PodNamed(run.podUsingPVC), run.containerName)) = 1
        /\ run.observed =>
              \A k \in EphsNamed(PodNamed(run.podUsingPVC), run.containerName) :
                  PodNamed(run.podUsingPVC).ephs[k].state = "Running"
        /\ run.pf # 0 => run.observed /\ run.containerName # NoName
        /\ \A f \in OwnForwards : f.pod = run.podUsingPVC /\ f.remote = 2137
        /\ run.probed => run.pf # 0
        /\ run.localRuns >= 1 => run.probed

C23_Witness ==
    /\ run.op = "mount" /\ run.strategy = "S2" /\ run.pc = "done" /\ run.err = ""
    /\ run.patches = 1 /\ run.observed /\ run.probed /\ run.localRuns = 1
    /\ Len(PodNamed(run.podUsingPVC).ephs) = 2
    /\ \E f \in OwnForwards : f.pod = Name("worker-", 7)

\* the Running NFS exposer containers of pod p
RunningNFSEphs(p) ==
    { k \in 1..Len(p.ephs) : p.ephs[k].state = "Running" /\ p.ephs[k].server = "ganesha" }

\* C24: in the ephemeral NFS strategy a container is reused, and no patch
\* sent, exactly when the workload pod has a Running NFS ephemeral
\* container; a Running SSH exposer or unrelated container is never taken
\* for one, and then a new NFS container is patched in and awaited before
\* the port-forward starts.
C24_NFSReuseOnlyNFSContainer ==
    run.op = "mount" /\ run.strategy = "S4" =>
        /\ run.reused =>
              /\ run.patches = 0
              /\ \E k \in RunningNFSEphs(PodNamed(run.podUsingPVC)) :
                    PodNamed(run.podUsingPVC).ephs[k].name = run.containerName
        /\ run.pc = "createNFSEphemeralContainer" =>
              RunningNFSEphs(PodNamed(run.podUsingPVC)) = {}
        /\ run.patches >= 1 => ~run.reused
        /\ run.pf # 0 => run.reused \/ run.observed

ProbeErrors == {"failed to establish SSH connection", "failed to establish NFS connection"}

\* C25: when the readiness probe does not succeed, the port-forward child
\* is killed, once, the invocation ends with the probe's error, and neither
\* the key file is written nor the local mount command run; the local mount
\* command runs only after a probe that succeeded.
C25_ProbeFailureKillsForward ==
    run.op = "mount" =>
        /\ run.localRuns >= 1 => run.probed
        /\ run.pc = "done" /\ run.pf # 0 /\ ~run.probed =>
              /\ run.err \in ProbeErrors
              /\ ~ForwardAlive(run.pf) /\ run.pfKills = 1
              /\ run.localRuns = 0 /\ run.keyPath = 0 /\ run.attempt = 0
        /\ run.err \in ProbeErrors => run.pc = "done" /\ run.pf # 0 /\ ~run.probed

C25_Witness ==
    /\ run.op = "mount" /\ run.pc = "done" /\ run.err = "failed to establish NFS connection"
    /\ run.pf # 0 /\ ~ForwardAlive(run.pf) /\ run.pfKills = 1 /\ run.localRuns = 0

\* the status entries of the awaited container, in list order
AwaitedEntries(call) ==
    SelectSeq(call.ephs, LAMBDA e : e.name = call.containerName /\ e.state # "Absent")

\* C26: the waiter decides from the status entry named like the awaited
\* container only: none or Waiting keeps polling, Running is success,
\* Terminated is failure; entries of other containers change nothing.
C26_WaiterDecidesByName ==
    run.op = "call" /\ run.fn = "checkEphemeralContainerStatus" /\ run.pc = "done" =>
        LET mine == AwaitedEntries(run.arg)
        IN  /\ mine = <<>> => run.result = "poll"
            /\ mine # <<>> /\ mine[1].state = "Waiting" => run.result = "poll"
            /\ mine # <<>> /\ mine[1].state = "Running" => run.result = "ready"
            /\ mine # <<>> /\ mine[1].state = "Terminated" => run.result = "terminated"
            /\ run.result = checkEphemeralContainerStatus([ephs |-> mine], run.arg.containerName)

C26_Witness ==
    /\ run.op = "call" /\ run.fn = "checkEphemeralContainerStatus" /\ run.pc = "done"
    /\ Len(run.arg.ephs) = 2
    /\ run.arg.ephs[1].name # AwaitedName /\ run.arg.ephs[1].state = "Terminated"
    /\ run.arg.ephs[2].name = AwaitedName /\ run.arg.ephs[2].state = "Running"
    /\ run.result = "ready"

\* --------------------------------------------------- waitForPodReady alone
\* wait.PollUntilContextTimeout(ctx, 1 s, 5 min, immediate, condition): the
\* condition is called at once and then after every interval, until it
\* returns true or an error, the deadline passes or ctx is cancelled.  The
\* kubelet sets and clears the pod's Ready condition as it likes, and the
\* caller may cancel at any time.  run is the loop.
WaitedPod == createPodSpec(Name(PodPrefix, 1), generatePort(1), TargetPVC, 1)

PollLoop ==
    [op |-> "poll", pc |-> "condition", elapsed |-> 0, polls |-> 0,
     cancelled |-> FALSE, sawReady |-> 0, sawGetError |-> 0, result |-> ""]

InitWaitPod ==
    /\ pvc = BoundPVC({"ReadWriteMany"})
    /\ pods \in { <<WaitedPod>>, <<[WaitedPod EXCEPT !.ready = TRUE]>> }
    /\ forwards = {} /\ mounted = <<>> /\ keyFiles = {} /\ tempKeyFiles = {}
    /\ run = PollLoop
    /\ last = NoLast /\ runs = 0

\* a condition that takes a failed Get for "not ready yet"
podReadyConditionLenient(getOK, pod) ==
    IF getOK /\ pod.ready THEN "ok" ELSE "continue"

\* the condition function of waitForPodReady: the Get error, or whether
\* the pod has the condition PodReady=True
podReadyCondition(getOK, pod) ==
    IF ~getOK THEN "apierr"
    ELSE IF pod.ready THEN "ok"
    ELSE "continue"

\* one call of the condition; a Get under a cancelled context fails
PollCondition ==
    /\ run.op = "poll" /\ run.pc = "condition"
    /\ \E getOK \in BOOLEAN :
        /\ run.cancelled => ~getOK
        /\ LET r == podReadyCondition(getOK, pods[1])
           IN  run' = [run EXCEPT !.polls = @ + 1,
                                  !.sawReady = @ + (IF getOK /\ pods[1].ready THEN 1 ELSE 0),
                                  !.sawGetError = @ + (IF getOK THEN 0 ELSE 1),
                                  !.pc = IF r = "continue" THEN "wait" ELSE "done",
                                  !.result = IF r = "continue" THEN "" ELSE r]
    /\ UNCHANGED <<pvc, pods, forwards, mounted, keyFiles, tempKeyFiles, last, runs>>

\* the select between ctx.Done and the interval timer
PollWait ==
    /\ run.op = "poll" /\ run.pc = "wait"
    /\ \/ /\ run.cancelled
          /\ run' = [run EXCEPT !.pc = "done", !.result = "cancelled"]
       \/ /\ run.elapsed + PodPollInterval >= PodReadyTimeout
          /\ run' = [run EXCEPT !.pc = "done", !.result = "timeout",
                                !.elapsed = PodReadyTimeout]
       \/ /\ run.elapsed + PodPollInterval < PodReadyTimeout
          /\ run' = [run EXCEPT !.pc = "condition", !.elapsed = @ + PodPollInterval]
    /\ UNCHANGED <<pvc, pods, forwards, mounted, keyFiles, tempKeyFiles, last, runs>>

\* the kubelet sets or clears PodReady
PodReadyChanges ==
    /\ run.op = "poll" /\ run.pc # "done"
    /\ pods' = <<[pods[1] EXCEPT !.ready = ~@]>>
    /\ UNCHANGED <<pvc, forwards, mounted, keyFiles, tempKeyFiles, run, last, runs>>

\* the caller cancels ctx
CancelContext ==
    /\ run.op = "poll" /\ run.pc # "done" /\ ~run.cancelled
    /\ run' = [run EXCEPT !.cancelled = TRUE]
    /\ UNCHANGED <<pvc, pods, forwards, mounted, keyFiles, tempKeyFiles, last, runs>>

NextWaitPod == PollCondition \/ PollWait \/ PodReadyChanges \/ CancelContext

\* the loop is the only goroutine of the invocation: its steps are taken
SpecWaitPod ==
    /\ InitWaitPod /\ [][NextWaitPod]_vars
    /\ WF_vars(PollCondition) /\ WF_vars(PollWait)

\* C27: waitForPodReady always returns; it returns success exactly at the
\* first poll that saw PodReady=True, the API error at the first poll whose
\* Get failed, and otherwise an error once the deadline has passed or the
\* context was cancelled; it never succeeds without having seen Ready.
C27_WaitForPodReadyTerminates ==
    /\ <>(run.pc = "done")
    /\ [](run.pc # "done" => run.sawReady = 0 /\ run.sawGetError = 0)
    /\ [](run.pc = "done" =>
            /\ run.result \in {"ok", "apierr", "timeout", "cancelled"}
            /\ run.result = "ok" <=> run.sawReady = 1
            /\ run.result = "apierr" <=> run.sawGetError = 1
            /\ run.result = "timeout" => run.elapsed >= PodReadyTimeout
            /\ run.result = "cancelled" => run.cancelled
            /\ run.polls <= PodReadyTimeout \div PodPollInterval)

C27_Witness ==
    /\ run.op = "poll" /\ run.pc = "done" /\ run.result = "ok"
    /\ run.polls = 3 /\ run.sawReady = 1 /\ pods[1].ready


\* ------------------------------------------------------ the probes alone
ProbeReturned(fn) == run.op = "call" /\ run.fn = fn /\ run.pc = "done"

\* C28: isSSHReady reports ready exactly when the TCP connection opens, the
\* read under the 2-second deadline returns without error at least 3 bytes,
\* and the first three bytes are "SSH".  A dial error, a read error or
\* timeout, fewer than 3 bytes, or another prefix report not ready.
C28_SSHReadyIffBanner ==
    ProbeReturned("isSSHReady") =>
        LET c == run.arg
            banner == /\ Len(c.sent) >= 3
                      /\ c.sent[1] = "S" /\ c.sent[2] = "S" /\ c.sent[3] = "H"
        IN  /\ run.result \in BOOLEAN
            /\ run.result <=> (c.dial /\ c.deadline /\ banner)
            /\ ~c.dial => ~run.result
            /\ c.sent = <<>> => ~run.result
            /\ Len(c.sent) < 3 => ~run.result
            /\ ~banner => ~run.result

C28_Witness ==
    /\ ProbeReturned("isSSHReady")
    /\ run.arg = Conn(TRUE, TRUE, <<"S", "S", "H", "-", "S">>, FALSE)
    /\ run.result = TRUE

\* C29: isNFSReady reports not ready when the dial fails or when the
\* one-byte read fails with an error that is no timeout; it reports ready
\* when the read times out after 500 ms or returns data without error.  A
\* successful connect alone never makes it report ready.
C29_NFSReadyNeedsOpenConnection ==
    ProbeReturned("isNFSReady") =>
        LET c == run.arg
            read == c.dial /\ c.deadline
        IN  /\ run.result \in BOOLEAN
            /\ ~c.dial => ~run.result
            /\ read /\ c.sent = <<>> /\ c.closed => ~run.result
            /\ read /\ c.sent = <<>> /\ ~c.closed => run.result
            /\ read /\ c.sent # <<>> => run.result
            /\ run.result => read /\ (c.sent # <<>> \/ ~c.closed)

C29_Witness ==
    /\ ProbeReturned("isNFSReady")
    /\ run.arg = Conn(TRUE, TRUE, <<>>, FALSE)
    /\ run.result = TRUE


\* --------------------------------- waitForSSHReady / waitForNFSReady alone
\* Time is in milliseconds since `deadline := time.Now().Add(timeout)`; the
\* ticker is created after that line, so the clock read after the k-th tick
\* is later than k periods: the tick at k * ProbeTick = ProbeTimeout is
\* already after the deadline.
ProbeLoop(backend) ==
    [op |-> "probe", backend |-> backend, pc |-> "select", now |-> 0,
     tick |-> FALSE, cancelled |-> FALSE, dialCancelled |-> FALSE,
     checkStart |-> 0, prevTick |-> 0, checks |-> 0, passed |-> 0,
     lateChecks |-> 0, result |-> ""]

InitProbeLoop ==
    /\ pvc = BoundPVC({})
    /\ pods = <<>> /\ forwards = {} /\ mounted = <<>>
    /\ keyFiles = {} /\ tempKeyFiles = {}
    /\ run \in { ProbeLoop(b) : b \in {"ssh", "nfs"} }
    /\ last = NoLast /\ runs = 0

\* the longest one readiness check takes: the dial timeout and the read deadline
CheckLimit(backend) ==
    DialTimeout + (IF backend = "nfs" THEN NFSReadDeadline ELSE SSHReadDeadline)

\* what the connections of a check can meet: refused, closed by the
\* forwarder, silent, or greeted with the SSH banner
LoopConns ==
    { Conn(FALSE, TRUE, <<>>, FALSE), Conn(TRUE, TRUE, <<>>, TRUE),
      Conn(TRUE, TRUE, <<>>, FALSE), Conn(TRUE, TRUE, <<"S", "S", "H", "-">>, FALSE) }

\* a ticker case that never gives up
tickCaseNoDeadline(now, deadline) == "check"

\* case <-ticker.C: the timeout error when time.Now().After(deadline), else
\* the readiness check
tickCase(now, deadline) == IF now >= deadline THEN "timeout" ELSE "check"

\* time passes by one ticker period.  The ticker's channel holds one tick;
\* a tick that finds it full is dropped.  A waiting loop takes a pending tick
\* before the next one is due, and a check in progress ends within its
\* timeouts.
Tick ==
    /\ run.op = "probe" /\ run.pc # "done"
    /\ run.now < ProbeTimeout + CheckLimit(run.backend) + ProbeTick
    /\ run.pc = "select" => ~run.tick
    /\ run.pc = "check" => run.now + ProbeTick - run.checkStart <= CheckLimit(run.backend)
    /\ run' = [run EXCEPT !.now = @ + ProbeTick, !.tick = TRUE]
    /\ UNCHANGED <<pvc, pods, forwards, mounted, keyFiles, tempKeyFiles, last, runs>>

\* case <-ctx.Done(): return ctx.Err()
SelectDone ==
    /\ run.op = "probe" /\ run.pc = "select"
    /\ run.cancelled
    /\ run' = [run EXCEPT !.pc = "done", !.result = "ctxerr"]
    /\ UNCHANGED <<pvc, pods, forwards, mounted, keyFiles, tempKeyFiles, last, runs>>

\* case <-ticker.C: the deadline test, then the start of the readiness
\* check (DialContext with ctx)
SelectTick ==
    /\ run.op = "probe" /\ run.pc = "select"
    /\ run.tick
    /\ IF tickCase(run.now, ProbeTimeout) = "timeout"
       THEN run' = [run EXCEPT !.pc = "done", !.result = "timeout", !.tick = FALSE]
       ELSE run' = [run EXCEPT !.pc = "check", !.tick = FALSE,
                               !.checkStart = run.now, !.prevTick = run.now,
                               !.dialCancelled = run.cancelled,
                               !.checks = @ + 1,
                               !.lateChecks = @ + (IF run.now > ProbeTimeout - 1 THEN 1 ELSE 0)]
    /\ UNCHANGED <<pvc, pods, forwards, mounted, keyFiles, tempKeyFiles, last, runs>>

\* isSSHReady / isNFSReady returns.  A dial with a cancelled context fails.
CheckReturns ==
    /\ run.op = "probe" /\ run.pc = "check"
    /\ \E c \in LoopConns :
        LET conn == IF run.dialCancelled THEN [c EXCEPT !.dial = FALSE] ELSE c
            ready == IF run.backend = "nfs" THEN isNFSReady(conn) ELSE isSSHReady(conn)
        IN  IF ready
            THEN run' = [run EXCEPT !.pc = "done", !.result = "ok", !.passed = @ + 1]
            ELSE run' = [run EXCEPT !.pc = "select"]
    /\ UNCHANGED <<pvc, pods, forwards, mounted, keyFiles, tempKeyFiles, last, runs>>

\* the caller cancels ctx
CancelProbeContext ==
    /\ run.op = "probe" /\ run.pc # "done" /\ ~run.cancelled
    /\ run' = [run EXCEPT !.cancelled = TRUE]
    /\ UNCHANGED <<pvc, pods, forwards, mounted, keyFiles, tempKeyFiles, last, runs>>

NextProbeLoop == Tick \/ SelectDone \/ SelectTick \/ CheckReturns \/ CancelProbeContext

\* time passes, the select takes a ready case, and a check returns
SpecProbeLoop ==
    /\ InitProbeLoop /\ [][NextProbeLoop]_vars
    /\ WF_vars(Tick) /\ WF_vars(SelectDone \/ SelectTick) /\ WF_vars(CheckReturns)

\* C30: both probe loops always terminate, with exactly one of three
\* outcomes: success at the first tick whose readiness check passes, the
\* context's error once the caller has cancelled, or the timeout error at
\* the first tick after the deadline.  No readiness check is started after
\* the deadline has passed, and none after the loop saw the cancellation.
C30_ProbeLoopTerminates ==
    /\ <>(run.pc = "done")
    /\ [](run.lateChecks = 0)
    /\ [](run.pc = "check" => run.checkStart < ProbeTimeout)
    /\ [](run.pc # "done" => run.result = "" /\ run.passed = 0)
    /\ [](run.pc = "done" =>
            /\ run.result \in {"ok", "ctxerr", "timeout"}
            /\ run.result = "ok" <=> run.passed = 1
            /\ run.result = "ok" => run.checks >= 1
            /\ run.result = "ctxerr" => run.cancelled
            /\ run.result = "timeout" =>
                  /\ run.now >= ProbeTimeout
                  /\ run.prevTick < ProbeTimeout)
    /\ [][run.pc = "done" => run' = run]_vars

C30_Witness ==
    /\ run.op = "probe" /\ run.pc = "done" /\ run.result = "timeout"
    /\ run.backend = "nfs" /\ ~run.cancelled
    /\ run.checks >= 3


\* ------------------------------------------------------- the NFS retry loop
NFSMountFailed == "failed to mount PVC using NFS"

\* C31: mountPVCOverNFS runs the mount command at most 5 times.  It returns
\* success at the first attempt that exits 0 and makes no attempt after a
\* successful one; when all 5 attempts fail it returns an error that wraps
\* the error of the last attempt.
C31_NFSMountRetries ==
    /\ [](run.op = "mount" =>
            /\ run.attempt <= maxRetries
            /\ run.lastErr <= run.attempt
            /\ (run.pc = "mountPVCOverNFS" => run.lastErr = run.attempt /\ run.cause = 0)
            /\ (run.attempt > 0 /\ run.pc # "mountPVCOverNFS" =>
                  \/ /\ run.lastErr = run.attempt - 1 /\ run.cause = 0
                     /\ run.pending # NFSMountFailed /\ run.err # NFSMountFailed
                  \/ /\ run.attempt = maxRetries /\ run.lastErr = maxRetries
                     /\ run.cause = maxRetries
                     /\ NFSMountFailed \in {run.pending, run.err})
            /\ (NFSMountFailed \in {run.pending, run.err} =>
                  run.attempt = maxRetries /\ run.cause = maxRetries))
    /\ [][(run.op = "mount" /\ run'.op = "mount" /\ run'.attempt # run.attempt) =>
            /\ run.pc = "mountPVCOverNFS"
            /\ run'.attempt = run.attempt + 1
            /\ run.lastErr = run.attempt
            /\ (mounted' # mounted <=> run'.lastErr = run.lastErr)
            /\ (mounted' # mounted => run'.pc = "mountReturn" /\ run'.pending = "")]_vars

C31_Witness ==
    /\ run.op = "mount" /\ run.pc = "done" /\ run.err = NFSMountFailed
    /\ run.attempt = maxRetries /\ run.cause = maxRetries


\* ------------------------------------------------------- clean on its own
\* The clusters one clean is tried on: up to two pods, each a workload pod
\* with or without a volume of the PVC and with the ephemeral containers
\* earlier mounts or a debugger left in it, or a standalone exposer pod;
\* port-forward children left running towards some of the pods; one local
\* mount.
CleanEphLists ==
    LET sshA  == Eph(Name(SSHEphemeralPrefix, 1), "Running", "sshd", 1)
        sshB  == Eph(Name(SSHEphemeralPrefix, 2), "Running", "sshd", 2)
        nfsVE == Eph(NFSEphemeralName(3), "Running", "ganesha", 0)
        nfsA  == Eph(Name(NFSCleanPrefix, 4), "Running", "ganesha", 0)
        nfsB  == Eph(Name(NFSCleanPrefix, 5), "Running", "ganesha", 0)
    IN  { <<>>, <<sshA>>, <<DebugEph, sshA>>, <<[sshA EXCEPT !.state = "Terminated"], sshB>>,
          <<nfsVE>>, <<sshA, nfsA>>, <<nfsA, nfsB>>,
          <<[nfsA EXCEPT !.state = "Terminated"], nfsB>> }

CleanPods ==
    { Workload(n, v, e) : n \in {7, 8}, v \in { <<TargetPVC>>, <<OtherPVC>> },
                          e \in CleanEphLists }
    \cup { [createPodSpec(Name(PodPrefix, 9), generatePort(1), TargetPVC, 1)
               EXCEPT !.ready = TRUE],
           [createNFSPodSpec(Name(PodPrefix, 10), generatePort(2), TargetPVC)
               EXCEPT !.ready = TRUE] }

CleanPodLists == { ps \in SeqsUpTo(CleanPods, 2) : DistinctNames(ps) }

\* the port-forward children that may be left: one towards each pod
LeftForwards(ps) ==
    SUBSET { Forward(i, ps[i].name, generatePort(i), DefaultSSHPort) : i \in 1..Len(ps) }

InitClean ==
    /\ pvc = BoundPVC({"ReadWriteOnce"})
    /\ pods \in CleanPodLists
    /\ forwards \in LeftForwards(pods)
    /\ mounted \in { <<"ssh">>, <<"nfs">> }
    /\ keyFiles = {} /\ tempKeyFiles = {}
    /\ run = IdleRun
    /\ last = NoLast
    /\ runs = MaxRuns - 1

NextClean ==
    \/ StartClean \/ Unmount \/ ListLabelled \/ KillPortForward \/ DeletePod
    \/ CleanRWO \/ KillPortForwardRWO
    \/ KillProcessInEphemeralContainer \/ KillNFSProcessInEphemeralContainer
    \/ Return

SpecClean == InitClean /\ [][NextClean]_vars

\* ------------------------------------------------------- clean, step by step
UnmountFailed == "failed to unmount"

\* C32: when the local unmount command fails, clean returns that error and
\* takes no further step: it lists no pods, kills no port-forward, deletes no
\* pod and execs into no container; pods, port-forwards and mounts are as
\* they were.
C32_UnmountFailureStopsClean ==
    /\ [](run.op = "clean" /\ run.err = UnmountFailed =>
            /\ run.pc = "done"
            /\ run.unmounts = 1 /\ run.lists = 0 /\ run.pkills = 0
            /\ run.deletes = 0 /\ run.execIn = NoName
            /\ pods = run.prePods /\ mounted = run.preMounted)
    /\ [][(run.op = "clean" /\ run.pc = "unmount" /\ run'.op = "clean"
             /\ mounted' = mounted) =>
            /\ run'.pc = "done" /\ run'.err = UnmountFailed
            /\ UNCHANGED <<pods, forwards>>]_vars
    /\ [][(run.op = "clean" /\ run.err = UnmountFailed) =>
            UNCHANGED <<pods, forwards, mounted>>]_vars

C32_Witness ==
    /\ run.op = "clean" /\ run.pc = "done" /\ run.err = UnmountFailed
    /\ mounted # <<>> /\ forwards # {}
    /\ \E i \in 1..Len(pods) : MatchesSelector(pods[i], run.backend)


\* the index of the first pod of the list that matches clean's selector (0: none)
FirstLabelled(ps, backend) ==
    LET I == { i \in 1..Len(ps) : MatchesSelector(ps[i], backend) }
    IN  IF I = {} THEN 0 ELSE CHOOSE i \in I : \A j \in I : i <= j

StandaloneClean == run.op = "clean" /\ run.strategy = "standalone"

\* C33: when a pod matches clean's label selector (pvcName=<pvc>,
\* app=volume-exposer, and backend=nfs for NFS), clean acts on the first
\* match only: it kills the port-forwards targeting that pod, then deletes
\* that pod and returns success, without a second pod list and without
\* exec-ing into a container.  The delete never precedes the kill and never
\* follows a kill that reported an error.
C33_StandaloneCleanFirstMatch ==
    /\ [](run.op = "clean" /\ run.lists >= 1 /\ run.strategy # "" =>
            (run.strategy = "standalone" <=> FirstLabelled(run.prePods, run.backend) > 0))
    /\ [](StandaloneClean =>
            /\ run.podName = run.prePods[FirstLabelled(run.prePods, run.backend)].name
            /\ run.lists = 1 /\ run.execIn = NoName
            /\ run.pkills <= 1 /\ run.deletes <= 1 /\ run.deletes <= run.pkills
            /\ run.deleted \in {NoName, run.podName}
            /\ (run.pc = "deletePod" => run.pkills = 1 /\ run.deletes = 0)
            /\ (run.pc = "done" /\ run.err = "" =>
                  /\ run.pkills = 1 /\ run.deletes = 1 /\ run.deleted = run.podName
                  /\ pods = RemoveNamed(run.prePods, run.podName)
                  /\ \A f \in forwards : f.pod # run.podName))
    /\ [][(StandaloneClean /\ run.pc = "killPortForward" /\ run'.op = "clean") =>
            /\ forwards' = forwards \ { f \in forwards : f.pod = run.podName }
            /\ pods' = pods
            /\ (forwards' = forwards => run'.pc = "done" /\ run'.err # "")
            /\ (forwards' # forwards => run'.pc = "deletePod")]_vars
    /\ [][(StandaloneClean /\ pods' # pods) =>
            /\ run.pc = "deletePod" /\ run.pkills = 1
            /\ \A f \in forwards : f.pod # run.podName
            /\ pods' = RemoveNamed(pods, run.podName)]_vars

C33_Witness ==
    /\ StandaloneClean /\ run.pc = "done" /\ run.err = ""
    /\ run.deleted = run.podName /\ run.pkills = 1
    /\ Len(run.prePods) >= 2
    /\ \E i \in 1..Len(pods) : MatchesSelector(pods[i], run.backend)


\* the index of the first pod of the list with a volume of the PVC (0: none)
FirstUsing(ps, pvcName) ==
    LET I == { i \in 1..Len(ps) : \E k \in 1..Len(ps[i].volumes) : ps[i].volumes[k] = pvcName }
    IN  IF I = {} THEN 0 ELSE CHOOSE i \in I : \A j \in I : i <= j

EphemeralClean == run.op = "clean" /\ run.strategy = "ephemeral"

NoPodFound == "no pod found using PVC"

\* C34: when no pod matches clean's label selector, clean scans all pods of
\* the namespace for the first one whose volumes reference the PVC.  With
\* none it fails with 'no pod found using PVC <pvc>' and kills nothing;
\* otherwise it first kills the port-forward targeting that pod and then
\* kills the server process inside an ephemeral container of that pod.
C34_RWOCleanScanThenKills ==
    /\ [](run.op = "clean" /\ run.strategy # "" =>
            (run.strategy = "ephemeral" <=> FirstLabelled(run.prePods, run.backend) = 0))
    /\ [](EphemeralClean =>
            /\ run.deletes = 0 /\ run.pkills <= 1 /\ run.lists <= 2
            /\ (run.err = NoPodFound =>
                  /\ FirstUsing(run.prePods, TargetPVC) = 0
                  /\ run.pc = "done" /\ run.pkills = 0 /\ run.execIn = NoName
                  /\ pods = run.prePods)
            /\ (run.podName # NoName =>
                  /\ FirstUsing(run.prePods, TargetPVC) > 0
                  /\ run.podName = run.prePods[FirstUsing(run.prePods, TargetPVC)].name)
            /\ (run.lists = 2 /\ run.podName = NoName /\ run.err # "failed to list pods" =>
                  run.err = NoPodFound)
            /\ (run.pkills = 0 => run.execIn = NoName /\ pods = run.prePods)
            /\ (run.execIn # NoName =>
                  /\ run.pkills = 1
                  /\ \A f \in forwards : f.pod # run.podName
                  /\ \E k \in 1..Len(PodNamed(run.podName).ephs) :
                        PodNamed(run.podName).ephs[k].name = run.execIn)
            /\ (run.pc = "done" /\ run.err = "" =>
                  /\ run.pkills = 1 /\ run.execIn # NoName
                  /\ \E k \in 1..Len(PodNamed(run.podName).ephs) :
                        /\ PodNamed(run.podName).ephs[k].name = run.execIn
                        /\ PodNamed(run.podName).ephs[k].state = "Terminated"))
    /\ [][(EphemeralClean /\ run'.op = "clean" /\ forwards' # forwards) =>
            /\ run.pc = "killPortForwardRWO" /\ run.execIn = NoName
            /\ forwards' = forwards \ { f \in forwards : f.pod = run.podName }]_vars
    /\ [][(EphemeralClean /\ run'.op = "clean" /\ run.pc = "killPortForwardRWO"
             /\ forwards' = forwards) => run'.pc = "done" /\ run'.err # ""]_vars

C34_Witness ==
    /\ EphemeralClean /\ run.pc = "done" /\ run.err = ""
    /\ run.pkills = 1 /\ run.execIn # NoName
    /\ FirstUsing(run.prePods, TargetPVC) = 2


\* the ephemeral containers of the pod clean works on, in spec order
CleanedEphs == PodNamed(run.podName).ephs

\* C35: in the RWO clean path the server process is killed, for SSH, in the
\* first ephemeral container of the workload pod's spec and, for NFS, in the
\* first ephemeral container in spec order whose name starts with
\* nfs-ganesha-ephemeral-.  When the pod cannot be fetched or has no such
\* container, clean fails without exec-ing anything.
C35_KillTargetIsFirstContainer ==
    /\ (EphemeralClean /\ run.execIn # NoName =>
          IF run.backend = "ssh"
          THEN run.execIn = CleanedEphs[1].name
          ELSE \E k \in 1..Len(CleanedEphs) :
                  /\ run.execIn = CleanedEphs[k].name
                  /\ HasPrefix(CleanedEphs[k].name, NFSCleanPrefix)
                  /\ \A j \in 1..(k - 1) : ~HasPrefix(CleanedEphs[j].name, NFSCleanPrefix))
    /\ (EphemeralClean /\ run.pc = "done"
          /\ run.err \in { "failed to get existing pod",
                           "no ephemeral containers found in pod",
                           "no NFS ephemeral container found in pod" } =>
          run.execIn = NoName)


\* ------------------------------- the two cleanups of the temp key file
\* The handler goroutine runs cleanupTempKeyFiles (Lock, os.Remove of every
\* registered path, Unlock) while the invocation runs the cleanup closure of
\* createTempSSHKeyFile (os.Remove(keyFilePath), then unregisterTempKeyFile:
\* Lock, delete, Unlock).  Each runs twice in a row; the handler may call
\* os.Exit(1) once its first run is over.  In this specification run holds
\* the position of both and the owner of tempKeyFilesMu.
RacePath == 1
StrayPath == RacePath + 1

Race ==
    [op |-> "race", h |-> "lock", hRound |-> 1, s |-> "remove", sRound |-> 1,
     mu |-> "none", fatal |-> FALSE, ignored |-> 0]

InitRace ==
    /\ pvc = BoundPVC({})
    /\ pods = <<>> /\ forwards = {} /\ mounted = <<>>
    /\ \E hasKey \in BOOLEAN, stray \in SUBSET { KeyFile(StrayPath, KeyFileMode, TRUE) } :
          keyFiles = { KeyFile(RacePath, KeyFileMode, hasKey) } \cup stray
    /\ tempKeyFiles = { RacePath }
    /\ run = Race
    /\ last = NoLast /\ runs = 0

\* a Lock that does not wait for the mutex
LockUnguarded(t, next) ==
    run' = [run EXCEPT ![t] = next]

\* tempKeyFilesMu.Lock(): waits while the other goroutine holds the mutex
Lock(t, next) ==
    /\ run.mu = "none"
    /\ run' = [run EXCEPT !.mu = t, ![t] = next]

HandlerLock ==
    /\ run.op = "race" /\ run.h = "lock"
    /\ Lock("h", "range")
    /\ UNCHANGED <<pvc, pods, forwards, mounted, keyFiles, tempKeyFiles, last, runs>>

\* for file := range tempKeyFiles { _ = os.Remove(file) }: the error of a
\* path that is gone is dropped.  Iterating the map while the other goroutine
\* writes it is a fatal error of the Go runtime.
HandlerRemove ==
    /\ run.op = "race" /\ run.h = "range"
    /\ keyFiles' = cleanupTempKeyFiles
    /\ run' = [run EXCEPT !.h = "unlock",
                          !.fatal = @ \/ run.s \in {"delete", "unlock"},
                          !.ignored = IF \E q \in tempKeyFiles : ~FileExists(q)
                                      THEN 1 ELSE @]
    /\ UNCHANGED <<pvc, pods, forwards, mounted, tempKeyFiles, last, runs>>

\* defer tempKeyFilesMu.Unlock()
HandlerUnlock ==
    /\ run.op = "race" /\ run.h = "unlock"
    /\ run' = [run EXCEPT !.mu = IF @ = "h" THEN "none" ELSE @,
                          !.h = IF run.hRound = 1 THEN "lock" ELSE "done",
                          !.hRound = 2]
    /\ UNCHANGED <<pvc, pods, forwards, mounted, keyFiles, tempKeyFiles, last, runs>>

\* os.Exit(1) after cleanupTempKeyFiles returned: every goroutine ends
HandlerExitsProcess ==
    /\ run.op = "race" /\ run.hRound = 2 /\ run.h = "lock"
    /\ run' = [run EXCEPT !.h = "exited", !.s = "exited", !.mu = "none"]
    /\ UNCHANGED <<pvc, pods, forwards, mounted, keyFiles, tempKeyFiles, last, runs>>

\* cleanup(): _ = os.Remove(keyFilePath)
ScopedRemove ==
    /\ run.op = "race" /\ run.s = "remove"
    /\ keyFiles' = RemoveFile(RacePath)
    /\ run' = [run EXCEPT !.s = "lock",
                          !.ignored = IF ~FileExists(RacePath) THEN 1 ELSE @]
    /\ UNCHANGED <<pvc, pods, forwards, mounted, tempKeyFiles, last, runs>>

\* unregisterTempKeyFile: tempKeyFilesMu.Lock()
ScopedLock ==
    /\ run.op = "race" /\ run.s = "lock"
    /\ Lock("s", "delete")
    /\ UNCHANGED <<pvc, pods, forwards, mounted, keyFiles, tempKeyFiles, last, runs>>

\* unregisterTempKeyFile: delete(tempKeyFiles, path)
ScopedDelete ==
    /\ run.op = "race" /\ run.s = "delete"
    /\ tempKeyFiles' = unregisterTempKeyFile(RacePath)
    /\ run' = [run EXCEPT !.s = "unlock",
                          !.fatal = @ \/ run.h \in {"range", "unlock"}]
    /\ UNCHANGED <<pvc, pods, forwards, mounted, keyFiles, last, runs>>

\* unregisterTempKeyFile: defer tempKeyFilesMu.Unlock()
ScopedUnlock ==
    /\ run.op = "race" /\ run.s = "unlock"
    /\ run' = [run EXCEPT !.mu = IF @ = "s" THEN "none" ELSE @,
                          !.s = IF run.sRound = 1 THEN "remove" ELSE "done",
                          !.sRound = 2]
    /\ UNCHANGED <<pvc, pods, forwards, mounted, keyFiles, tempKeyFiles, last, runs>>

HandlerSteps == HandlerLock \/ HandlerRemove \/ HandlerUnlock

ScopedSteps == ScopedRemove \/ ScopedLock \/ ScopedDelete \/ ScopedUnlock

NextRace == HandlerSteps \/ HandlerExitsProcess \/ ScopedSteps

\* both goroutines are scheduled
SpecRace ==
    InitRace /\ [][NextRace]_vars /\ WF_vars(HandlerSteps) /\ WF_vars(ScopedSteps)

\* both cleanups have run once, or the process has exited
RaceOver ==
    \/ run.h = "exited"
    \/ /\ run.hRound = 2 \/ run.h = "done"
       /\ run.sRound = 2 \/ run.s = "done"

\* C36: when the signal handler's cleanupTempKeyFiles runs concurrently with
\* the scoped cleanup of a temp key file (remove, then unregister), in every
\* interleaving neither blocks forever or fails, the registry is read and
\* written under mutual exclusion, and afterwards the key file does not
\* exist; a second run of either cleanup changes nothing.
C36_CleanupsRaceSafely ==
    /\ <>(run.h \in {"done", "exited"} /\ run.s \in {"done", "exited"})
    /\ [](~run.fatal)
    /\ [](~(run.h \in {"range", "unlock"} /\ run.s \in {"delete", "unlock"}))
    /\ [](run.h \in {"range", "unlock"} => run.mu = "h")
    /\ [](run.s \in {"delete", "unlock"} => run.mu = "s")
    /\ [](RaceOver => ~FileExists(RacePath))
    /\ [][FileExists(StrayPath)' = FileExists(StrayPath)]_vars
    /\ [][(run.hRound = 2 /\ run'.h # run.h /\ run'.s = run.s) =>
            UNCHANGED <<keyFiles, tempKeyFiles>>]_vars
    /\ [][(run.sRound = 2 /\ run'.s # run.s /\ run'.h = run.h) =>
            UNCHANGED <<keyFiles, tempKeyFiles>>]_vars

C36_Witness ==
    /\ run.op = "race" /\ run.h = "done" /\ run.s = "done"
    /\ run.ignored = 1 /\ ~FileExists(RacePath) /\ FileExists(StrayPath)
    /\ tempKeyFiles = {}


\* ------------------------------------------------------ validation first
\* the invocation has had no effect: no API call, no subprocess, no file
Untouched ==
    /\ run.strategy = "" /\ run.podName = NoName /\ run.containerName = NoName
    /\ run.creates = 0 /\ run.patches = 0 /\ run.deletes = 0 /\ run.lists = 0
    /\ run.pf = 0 /\ run.pfKills = 0 /\ run.pkills = 0 /\ run.execIn = NoName
    /\ run.unmounts = 0 /\ run.localRuns = 0 /\ run.attempt = 0 /\ run.keyPath = 0
    /\ ~run.keys /\ ~run.observed /\ ~run.probed
    /\ pods = run.prePods /\ mounted = run.preMounted

SameSpec(p, q) ==
    /\ Len(p.ephs) = Len(q.ephs)
    /\ \A k \in 1..Len(p.ephs) :
          [p.ephs[k] EXCEPT !.state = ""] = [q.ephs[k] EXCEPT !.state = ""]
    /\ [p EXCEPT !.ephs = <<>>] = [q EXCEPT !.ephs = <<>>]

\* C38: clean issues at most one pod Delete per invocation, and the pod it
\* deletes carries the labels app=volume-exposer and pvcName=<the requested
\* PVC>; a workload pod found through the PVC-volume scan is never deleted
\* or patched by clean.
C38_CleanDeletesOnlyLabelledPod ==
    /\ [](run.op = "clean" =>
            /\ run.deletes <= 1 /\ run.patches = 0 /\ run.creates = 0
            /\ Len(pods) >= Len(run.prePods) - 1
            /\ (run.strategy # "standalone" =>
                  /\ run.deletes = 0 /\ run.deleted = NoName
                  /\ Len(pods) = Len(run.prePods)
                  /\ \A i \in 1..Len(pods) : SameSpec(pods[i], run.prePods[i])))
    /\ [][(run.op = "clean" /\ run'.op = "clean" /\ run'.deletes # run.deletes) =>
            /\ run.deletes = 0 /\ run'.deletes = 1
            /\ run.strategy = "standalone"
            /\ \E i \in 1..Len(pods) :
                  /\ pods[i].name = run.podName
                  /\ pods[i].app = "volume-exposer"
                  /\ pods[i].pvcName = TargetPVC
                  /\ pods' \in { pods, RemoveNamed(pods, run.podName) }]_vars
    /\ [][(run.op = "clean" /\ run'.op = "clean" /\ Len(pods') # Len(pods)) =>
            run'.deletes = run.deletes + 1 /\ run'.deleted = run.podName]_vars

C38_Witness ==
    /\ run.op = "clean" /\ run.pc = "done" /\ run.err = "" /\ run.deletes = 1
    /\ Len(run.prePods) = 2 /\ Len(pods) = 1
    /\ pods[1].app = "" /\ pods[1].ephs # <<>>
    /\ \E k \in 1..Len(pods[1].volumes) : pods[1].volumes[k] = TargetPVC

\* ---------------------------------------------------------------------
\* successive mount / clean cycles on one workload pod that holds the RWO
\* PVC: every mount patches one more ephemeral container into the pod, and
\* the pod keeps all of them (ephemeral containers cannot be removed)
\* ---------------------------------------------------------------------

\* the draw of the cycle that ran before the first invocation followed here
PriorRun == MaxRuns + 1

\* what that cycle left in the pod: the container createEphemeralContainer
\* added, its sshd killed by the cycle's clean
PriorSSHEph ==
    [buildEphemeralContainerSpec(Name(SSHEphemeralPrefix, Suffix(PriorRun)),
                                 PublicKey(PriorRun))
        EXCEPT !.state = "Terminated"]

InitCycles ==
    /\ pvc = BoundPVC({"ReadWriteOnce"})
    /\ \E e \in { <<>>, <<PriorSSHEph>> } :
          /\ pods = <<Workload(7, <<TargetPVC>>, e)>>
          /\ last = IF e = <<>> THEN NoLast
                    ELSE [NoLast EXCEPT !.op = "clean", !.ok = TRUE]
    /\ forwards = {}
    /\ mounted = <<>>
    /\ keyFiles = {} /\ tempKeyFiles = {}
    /\ run = IdleRun
    /\ runs = 0

NextCycles ==
    \/ StartMount \/ CheckPVCUsage \/ Probe \/ GenerateAndDebugKeys
    \/ CreateEphemeralContainer \/ FindRunningNFSEphemeralContainer
    \/ CreateNFSEphemeralContainer \/ WaitForEphemeralContainerReady
    \/ SetupPortForwarding \/ WaitForSSHReady
    \/ SetupNFSPortForwarding \/ WaitForNFSReady
    \/ CreateTemp \/ RegisterTempKeyFile \/ Chmod \/ WriteKey \/ CloseKey
    \/ Sshfs \/ CleanupRemove \/ CleanupUnregister
    \/ MountPVCOverNFS \/ MountReturn
    \/ StartClean \/ Unmount \/ ListLabelled
    \/ CleanRWO \/ KillPortForwardRWO
    \/ KillProcessInEphemeralContainer \/ KillNFSProcessInEphemeralContainer
    \/ Return

SpecCycles == InitCycles /\ [][NextCycles]_vars

\* the previous invocation was a mount over SSH that added an ephemeral
\* container to the workload pod and returned success
LastAddedSSHEph ==
    /\ last.op = "mount" /\ last.ok /\ last.backend = "ssh"
    /\ last.strategy = "S2" /\ last.containerName # NoName

\* an exposer sshd is still running in pod p
ExposerSSHDRunning(p) ==
    \E k \in 1..Len(p.ephs) :
        /\ HasPrefix(p.ephs[k].name, SSHEphemeralPrefix)
        /\ p.ephs[k].server = "sshd" /\ p.ephs[k].state = "Running"

====
